---- MODULE Spec2Model ----
(***************************************************************************)
(* Model of the internal link engine of src/src/lib/sota/                  *)
(* SOTAInternalLinkEngine.ts (v3.0.0, lines 1-337): paragraph extraction,  *)
(* stemming, anchor candidate generation, greedy selection and link        *)
(* injection; and of the publish hook, the cache and the rate limit of the *)
(* server and the slug helper, each under a specification of its own.      *)
(*                                                                         *)
(* Strings are sequences of one-character strings, so that every string    *)
(* operation of the source (toLowerCase, replace, split, indexOf, the      *)
(* regular expressions) is computed character by character.                *)
(***************************************************************************)
EXTENDS Integers, Sequences, FiniteSets, TLC

(***************************************************************************)
(* Characters                                                              *)
(***************************************************************************)
LowerAlpha == <<"a","b","c","d","e","f","g","h","i","j","k","l","m",
                "n","o","p","q","r","s","t","u","v","w","x","y","z">>
UpperAlpha == <<"A","B","C","D","E","F","G","H","I","J","K","L","M",
                "N","O","P","Q","R","S","T","U","V","W","X","Y","Z">>
LowerSet == {LowerAlpha[i] : i \in 1..26}
UpperSet == {UpperAlpha[i] : i \in 1..26}
DigitSet == {"0","1","2","3","4","5","6","7","8","9"}

\* String.prototype.toLowerCase on one (ASCII) character
toLowerCase(c) ==
  IF c \in UpperSet
    THEN LowerAlpha[CHOOSE i \in 1..26 : UpperAlpha[i] = c]
    ELSE c

Lower(s) == [i \in 1..Len(s) |-> toLowerCase(s[i])]

\* the regular expression classes \s and \w (ASCII subset used by the model)
IsSpace(c) == c \in {" ", "\n", "\t"}
IsWordChar(c) == c \in LowerSet \cup UpperSet \cup DigitSet \cup {"_"}

\* String.prototype.trim
Trim(s) ==
  LET keep == {i \in 1..Len(s) : ~IsSpace(s[i])}
  IN  IF keep = {} THEN <<>>
      ELSE SubSeq(s, CHOOSE i \in keep : \A j \in keep : i <= j,
                     CHOOSE i \in keep : \A j \in keep : i >= j)

\* the positions lo..hi of s where a run of non-space characters starts, in
\* increasing order (by halving, so that long strings need no deep recursion)
RECURSIVE RunStarts(_, _, _)
RunStarts(s, lo, hi) ==
  IF lo > hi THEN <<>>
  ELSE IF lo = hi
    THEN IF ~IsSpace(s[lo]) /\ (lo = 1 \/ IsSpace(s[lo-1])) THEN <<lo>> ELSE <<>>
  ELSE LET mid == (lo + hi) \div 2
       IN  RunStarts(s, lo, mid) \o RunStarts(s, mid + 1, hi)

\* s.split(/\s+/): the maximal runs of non-space characters, in order, with an
\* empty string in front (behind) when s starts (ends) with white space, and
\* [""] for the empty string.
SplitWs(s) ==
  LET n == Len(s)
      st == RunStarts(s, 1, n)
      EndOf(i) == CHOOSE j \in i..n :
                    /\ (j = n \/ IsSpace(s[j+1]))
                    /\ \A k \in i..j : ~IsSpace(s[k])
      runs == [k \in 1..Len(st) |-> SubSeq(s, st[k], EndOf(st[k]))]
  IN  IF n = 0 THEN << <<>> >>
      ELSE (IF IsSpace(s[1]) THEN << <<>> >> ELSE <<>>)
             \o runs
             \o (IF IsSpace(s[n]) THEN << <<>> >> ELSE <<>>)

\* Array.prototype.join(' ')
RECURSIVE Join(_)
Join(ws) ==
  IF ws = <<>> THEN <<>>
  ELSE IF Len(ws) = 1 THEN ws[1]
  ELSE ws[1] \o <<" ">> \o Join(Tail(ws))

EndsWith(w, suf) ==
  Len(w) >= Len(suf) /\ SubSeq(w, Len(w) - Len(suf) + 1, Len(w)) = suf

DropLast(w, k) == SubSeq(w, 1, Len(w) - k)

(***************************************************************************)
(* Helpers of the engine                                                   *)
(***************************************************************************)
STOP == {
  <<"a">>, <<"a","n">>, <<"t","h","e">>, <<"a","n","d">>, <<"o","r">>, <<"b","u","t">>,
  <<"i","n">>, <<"o","n">>, <<"a","t">>, <<"t","o">>, <<"f","o","r">>, <<"o","f">>,
  <<"w","i","t","h">>, <<"b","y">>, <<"f","r","o","m">>, <<"a","s">>, <<"i","s">>,
  <<"w","a","s">>, <<"a","r","e">>, <<"w","e","r","e">>, <<"b","e">>, <<"h","a","v","e">>,
  <<"h","a","s">>, <<"h","a","d">>, <<"d","o">>, <<"d","o","e","s">>, <<"d","i","d">>,
  <<"w","i","l","l">>, <<"w","o","u","l","d">>, <<"c","o","u","l","d">>,
  <<"s","h","o","u","l","d">>, <<"m","a","y">>, <<"m","i","g","h","t">>, <<"c","a","n">>,
  <<"t","h","i","s">>, <<"t","h","a","t">>, <<"t","h","e","s","e">>, <<"t","h","o","s","e">>,
  <<"i">>, <<"m","e">>, <<"m","y">>, <<"w","e">>, <<"o","u","r">>, <<"y","o","u">>,
  <<"y","o","u","r">>, <<"h","e">>, <<"h","i","m">>, <<"h","i","s">>, <<"s","h","e">>,
  <<"h","e","r">>, <<"i","t">>, <<"i","t","s">>, <<"t","h","e","y">>, <<"t","h","e","m">>,
  <<"t","h","e","i","r">>, <<"w","h","a","t">>, <<"w","h","i","c","h">>, <<"w","h","o">>,
  <<"h","o","w">>, <<"w","h","e","n">>, <<"w","h","e","r","e">>, <<"w","h","y">>,
  <<"n","o","t">>, <<"n","o">>, <<"s","o">>, <<"i","f">>, <<"t","h","a","n">>, <<"t","o","o">>,
  <<"v","e","r","y">>, <<"j","u","s","t">>, <<"a","b","o","u","t">>, <<"a","l","l">>,
  <<"a","l","s","o">>, <<"a","n","y">>, <<"b","e","e","n">>, <<"b","e","i","n","g">>,
  <<"b","o","t","h">>, <<"e","a","c","h">>, <<"f","e","w">>, <<"m","o","r","e">>,
  <<"m","o","s","t">>, <<"o","t","h","e","r">>, <<"s","o","m","e">>, <<"s","u","c","h">>,
  <<"i","n","t","o">>, <<"o","u","t">>, <<"u","p">>, <<"d","o","w","n">>, <<"n","e","w">>,
  <<"w","a","y">>, <<"m","u","c","h">>, <<"e","v","e","n">>, <<"o","n","l","y">>,
  <<"o","w","n">>, <<"h","e","r","e">>, <<"t","h","e","r","e">>
}

IsLowerLetter(c) == c \in LowerSet
\* the class [a-z0-9\s'-] of significantTokens (text already lower-cased)
IsTokenChar(c) == c \in LowerSet \cup DigitSet \cup {"'", "-"} \/ IsSpace(c)

stem(word) ==
  LET w == SelectSeq(Lower(word), IsLowerLetter)
  IN  IF Len(w) <= 3 THEN w
      ELSE IF EndsWith(w, <<"i","n","g">>) /\ Len(w) > 5 THEN DropLast(w, 3)
      ELSE IF EndsWith(w, <<"t","i","o","n">>) /\ Len(w) > 6 THEN DropLast(w, 4)
      ELSE IF EndsWith(w, <<"n","e","s","s">>) /\ Len(w) > 6 THEN DropLast(w, 4)
      ELSE IF EndsWith(w, <<"m","e","n","t">>) /\ Len(w) > 6 THEN DropLast(w, 4)
      ELSE IF EndsWith(w, <<"a","b","l","e">>) /\ Len(w) > 6 THEN DropLast(w, 4)
      ELSE IF EndsWith(w, <<"i","e","s">>) /\ Len(w) > 4 THEN DropLast(w, 3) \o <<"y">>
      ELSE IF EndsWith(w, <<"e","s">>) /\ Len(w) > 4 THEN DropLast(w, 2)
      ELSE IF EndsWith(w, <<"e","d">>) /\ Len(w) > 4 THEN DropLast(w, 2)
      ELSE IF EndsWith(w, <<"s">>) /\ ~EndsWith(w, <<"s","s">>) /\ Len(w) > 3
        THEN DropLast(w, 1)
      ELSE IF EndsWith(w, <<"l","y">>) /\ Len(w) > 4 THEN DropLast(w, 2)
      ELSE w

IsSignificant(w) == Len(w) > 2 /\ w \notin STOP

significantTokens(text) ==
  LET lowered == Lower(text)
      replaced == [i \in 1..Len(lowered) |->
                     IF IsTokenChar(lowered[i]) THEN lowered[i] ELSE " "]
      kept == SelectSeq(SplitWs(replaced), IsSignificant)
  IN  [i \in 1..Len(kept) |-> stem(kept[i])]

Range(f) == {f[i] : i \in DOMAIN f}

(***************************************************************************)
(* Scores.  The source computes score = overlapRatio * 40 + overlap * 8 +  *)
(* lengthBonus + titleBonus in floating point, overlapRatio being          *)
(* overlap / phraseStems.length.  The model keeps the exact rational       *)
(* num / den (den = phraseStems.length, or 1 for the fallback).            *)
(***************************************************************************)
ScoreLess(a, b) == a.num * b.den < b.num * a.den
ScoreEq(a, b) == a.num * b.den = b.num * a.den
ScoreBelow(a, k) == a.num < k * a.den
IntScore(k) == [num |-> k, den |-> 1]

\* "no score" (a continue in the window loop) and null (no best anchor)
NoScore == [num |-> 0 - 1, den |-> 1]
Null == [anchor |-> <<>>, score |-> NoScore, via |-> "none"]

\* phrase.replace(/[^a-z0-9\s'-]/gi, ' ')
CleanPhrase(phrase) ==
  [i \in 1..Len(phrase) |->
     IF IsTokenChar(toLowerCase(phrase[i])) THEN phrase[i] ELSE " "]

\* word.toLowerCase().replace(/[^a-z]/g, '')
LettersOf(word) == SelectSeq(Lower(word), IsLowerLetter)

Min(a, b) == IF a <= b THEN a ELSE b

TitleStems(page) == Range(significantTokens(page.title))
KeywordStems(page) ==
  UNION {Range(significantTokens(page.keywords[k])) : k \in DOMAIN page.keywords}

\* Lines 147-169 of an iteration of the window loop, for a window of len
\* words whose cleaned phrase has the stems phraseStems and whose first and
\* last words are first and last: the score, or NoScore when the iteration
\* is left by a continue.
PhraseScore(phraseStems, first, last, titleStems, allTargetStems, len) ==
  LET overlap == Cardinality({k \in DOMAIN phraseStems :
                                phraseStems[k] \in allTargetStems})
      titleOverlap == Cardinality({k \in DOMAIN phraseStems :
                                     phraseStems[k] \in titleStems})
      lengthBonus == IF len >= 4 /\ len <= 6 THEN 8 ELSE IF len = 3 THEN 2 ELSE 0
      titleBonus == titleOverlap * 5
  IN  IF Len(phraseStems) = 0 THEN NoScore
      ELSE IF LettersOf(first) \in STOP \/ LettersOf(last) \in STOP THEN NoScore
      ELSE IF overlap = 0 THEN NoScore
      ELSE [num |-> overlap * 40
                      + Len(phraseStems) * (overlap * 8 + lengthBonus + titleBonus),
            den |-> Len(phraseStems)]

\* One iteration of the window loop (lines 140-171) for the window of len
\* words starting at word i: its score, or NoScore.
WindowScore(words, titleStems, allTargetStems, len, i) ==
  LET cleaned == Trim(CleanPhrase(Join(SubSeq(words, i, i + len - 1))))
  IN  IF Len(cleaned) < 8 THEN NoScore
      ELSE PhraseScore(significantTokens(cleaned), words[i], words[i + len - 1],
                       titleStems, allTargetStems, len)

\* the scores of all the windows the loop of lines 138-139 goes through,
\* a window being <<len, i>>
WindowScores(words, titleStems, allTargetStems) ==
  LET n == Len(words)
  IN  [w \in {v \in (3..Min(7, n)) \X (1..n) : v[2] <= n - v[1] + 1} |->
         WindowScore(words, titleStems, allTargetStems, w[1], w[2])]

\* best after the window loop (lines 166-169): the first window in scan
\* order (len ascending, then i ascending) among those of the highest score
TopWindow(words, score) ==
  LET ok == {w \in DOMAIN score : score[w] # NoScore}
      Before(v, w) == v[1] < w[1] \/ (v[1] = w[1] /\ v[2] <= w[2])
      top == CHOOSE w \in ok : \A v \in ok :
               \/ ScoreLess(score[v], score[w])
               \/ (ScoreEq(score[v], score[w]) /\ Before(w, v))
  IN  IF ok = {} THEN Null
      ELSE [anchor |-> Join(SubSeq(words, top[2], top[2] + top[1] - 1)),
            score |-> score[top], via |-> "window"]

\* The window loop (lines 136-173)
BestWindow(words, titleStems, allTargetStems) ==
  TopWindow(words, WindowScores(words, titleStems, allTargetStems))

\* String.prototype.indexOf, 0-based, -1 when absent
indexOf(hay, needle) ==
  LET m == Len(needle)
      At(p) == hay[p] = needle[1] /\ SubSeq(hay, p, p + m - 1) = needle
  IN  IF m = 0 THEN 0
      ELSE IF \E p \in 1..(Len(hay) - m + 1) : At(p)
        THEN (CHOOSE p \in 1..(Len(hay) - m + 1) :
                At(p) /\ \A q \in 1..(p - 1) : ~At(q)) - 1
        ELSE 0 - 1

LongerThanTwo(w) == Len(w) > 2

\* The fallback (lines 176-195), entered with the best window (or Null):
\* runs of 4 down to 2 title words searched verbatim in the paragraph text.
Fallback(paraText, page, best) ==
  LET titleWords == SelectSeq(SplitWs(page.title), LongerThanTwo)
      paraLower == Lower(paraText)
      nT == Len(titleWords)
      Snippet(r) == Join(SubSeq(titleWords, r[2], r[2] + r[1] - 1))
      Pos(r) == indexOf(paraLower, Lower(Snippet(r)))
      runs == {r \in (2..Min(4, nT)) \X (1..nT) : r[2] <= nT - r[1] + 1}
      pos == [r \in runs |-> Pos(r)]
      found == {r \in runs : pos[r] >= 0}
      \* scan order: len descending, then i ascending; a later hit replaces
      \* the best only when its score is strictly higher
      Before(q, r) == q[1] > r[1] \/ (q[1] = r[1] /\ q[2] <= r[2])
      top == CHOOSE r \in found : \A q \in found :
               q[1] < r[1] \/ (q[1] = r[1] /\ Before(r, q))
      newScore == IntScore(top[1] * 12 + 10)
  IN  IF found = {} THEN best
      ELSE IF best = Null \/ ScoreLess(best.score, newScore)
        THEN [anchor |-> SubSeq(paraText, pos[top] + 1,
                                pos[top] + Len(Snippet(top))),
              score |-> newScore, via |-> "fallback"]
        ELSE best

\* AtLeastTen as it would be if line 197 asked for a score of 100
AtLeastHundred(best) ==
  IF best # Null /\ ~ScoreBelow(best.score, 100) THEN best ELSE Null

\* the return of line 197; Null models null
AtLeastTen(best) ==
  IF best # Null /\ ~ScoreBelow(best.score, 10) THEN best ELSE Null

\* AfterWindows as it would be if a hit of the fallback always replaced
\* the best window
AfterWindowsFallbackFirst(paraText, page, best) ==
  AtLeastTen(IF Fallback(paraText, page, Null) # Null
               THEN Fallback(paraText, page, Null)
               ELSE best)

\* lines 175-197, entered with the best window (or Null)
AfterWindows(paraText, page, best) ==
  AtLeastTen(IF best = Null \/ ScoreBelow(best.score, 15)
               THEN Fallback(paraText, page, best)
               ELSE best)

\* AnchorAmong as it would be without the test of line 131
AnchorAmongAnyTarget(paraText, page, titleStems, allTargetStems, words) ==
  IF Len(words) < 5 THEN Null
  ELSE AfterWindows(paraText, page, BestWindow(words, titleStems, allTargetStems))

\* lines 131-197 for the target stems and the words of the paragraph
AnchorAmong(paraText, page, titleStems, allTargetStems, words) ==
  IF allTargetStems = {} THEN Null
  ELSE IF Len(words) < 5 THEN Null
  ELSE AfterWindows(paraText, page, BestWindow(words, titleStems, allTargetStems))

\* findBestAnchor (lines 126-198)
findBestAnchor(paraText, page) ==
  AnchorAmong(paraText, page, TitleStems(page),
              TitleStems(page) \cup KeywordStems(page), SplitWs(paraText))

(***************************************************************************)
(* Regular-expression scanning over an HTML string                         *)
(***************************************************************************)
\* the literal lit (given in lower case) stands at position i of s, compared
\* case-insensitively (the i flag)
IsAt(s, i, lit) ==
  /\ i >= 1
  /\ i + Len(lit) - 1 <= Len(s)
  /\ \A k \in 1..Len(lit) : toLowerCase(s[i + k - 1]) = lit[k]

\* the first position >= from where character c stands, 0 when there is none
NextChar(s, from, c) ==
  IF \E j \in from..Len(s) : s[j] = c
    THEN CHOOSE j \in from..Len(s) : s[j] = c /\ \A k \in from..(j - 1) : s[k] # c
    ELSE 0

\* the first position >= from where lit stands, 0 when there is none
NextLit(s, from, lit) ==
  IF \E j \in from..Len(s) : IsAt(s, j, lit)
    THEN CHOOSE j \in from..Len(s) :
           IsAt(s, j, lit) /\ \A k \in from..(j - 1) : ~IsAt(s, k, lit)
    ELSE 0

OpenP == <<"<","p">>
CloseP == <<"<","/","p",">">>

\* A match of /<p[^>]*>([\s\S]*?)<\/p>/i that starts at position i: [from, to]
\* (inclusive), or [0, 0] when the expression does not match there.
ParagraphAt(s, i) ==
  LET gt == NextChar(s, i + 2, ">")
      close == IF gt = 0 THEN 0 ELSE NextLit(s, gt + 1, CloseP)
  IN  IF IsAt(s, i, OpenP) /\ gt # 0 /\ close # 0
        THEN [from |-> i, to |-> close + 3]
        ELSE [from |-> 0, to |-> 0]

\* re.exec with the g flag: the leftmost match at or after position from
NextParagraph(s, from) ==
  LET starts == {i \in from..Len(s) : ParagraphAt(s, i).from # 0}
  IN  IF starts = {} THEN [from |-> 0, to |-> 0]
      ELSE ParagraphAt(s, CHOOSE i \in starts : \A j \in starts : i <= j)

\* m[0].replace(/<[^>]*>/g, '') from position from on
RECURSIVE StripTagsFrom(_, _)
StripTagsFrom(s, from) ==
  LET lt == NextChar(s, from, "<")
      gt == IF lt = 0 THEN 0 ELSE NextChar(s, lt + 1, ">")
  IN  IF gt = 0 THEN SubSeq(s, from, Len(s))
      ELSE SubSeq(s, from, lt - 1) \o StripTagsFrom(s, gt + 1)

StripTags(s) == StripTagsFrom(s, 1)

NonEmpty(w) == w # <<>>

\* /<a\s/i.test(s)
HasLinkMarkup(s) ==
  \E i \in 1..(Len(s) - 2) : IsAt(s, i, <<"<","a">>) /\ IsSpace(s[i + 2])

\* The body of the while loop of extractParagraphs (lines 90-104) for the
\* match m of html, with idx and cumWords as they stand before it.
ParagraphInfo(html, m, idx, cumWords) ==
  LET m0 == SubSeq(html, m.from, m.to)
      text == Trim(StripTags(m0))
      wc == Len(SelectSeq(SplitWs(text), NonEmpty))
  IN  [html |-> m0,
       text |-> text,
       index |-> idx,
       wordCount |-> wc,
       cumulativeWords |-> cumWords + wc,
       hasLink |-> HasLinkMarkup(m0),
       startOffset |-> m.from - 1,
       endOffset |-> m.to]

RECURSIVE ExtractFrom(_, _, _, _)
ExtractFrom(html, from, idx, cumWords) ==
  LET m == NextParagraph(html, from)
      info == ParagraphInfo(html, m, idx, cumWords)
  IN  IF m.from = 0 THEN <<>>
      ELSE <<info>> \o ExtractFrom(html, m.to + 1, idx + 1, info.cumulativeWords)

(***************************************************************************)
(* Inputs: the pages and the paragraphs the calls are made with            *)
(***************************************************************************)
\* "/s"
UrlSourdough ==
  <<"/","s">>

\* "/f"
UrlFlour ==
  <<"/","f">>

\* "Sourdough Baking Guide"
TitleSourdough ==
  <<"S","o","u","r","d","o","u","g","h"," ","B","a","k","i","n","g"," ","G",
    "u","i","d","e">>

\* "Choosing The Right Flour"
TitleFlour ==
  <<"C","h","o","o","s","i","n","g"," ","T","h","e"," ","R","i","g","h","t",
    " ","F","l","o","u","r">>

PgSourdough == [url |-> UrlSourdough, title |-> TitleSourdough, keywords |-> <<>>]
PgFlour == [url |-> UrlFlour, title |-> TitleFlour, keywords |-> <<>>]
PageChoices == {PgSourdough, PgFlour}

\* 14 words; a window for PgSourdough; of the title of PgFlour only "the right"
\* occurs, inside "the rightful"
\* "<p>The complete guide to sourdough baking gave her the rightful share of the bakery</p>"
ParaGuide ==
  <<"<","p",">","T","h","e"," ","c","o","m","p","l","e","t","e"," ","g","u",
    "i","d","e"," ","t","o"," ","s","o","u","r","d","o","u","g","h"," ","b",
    "a","k","i","n","g"," ","g","a","v","e"," ","h","e","r"," ","t","h","e",
    " ","r","i","g","h","t","f","u","l"," ","s","h","a","r","e"," ","o","f",
    " ","t","h","e"," ","b","a","k","e","r","y","<","/","p",">">>

\* 14 words; a window for PgFlour and one for PgSourdough
\* " Choosing the right flour matters because sourdough baking rewards careful bakers every single time"
FlourWords ==
  <<" ","C","h","o","o","s","i","n","g"," ","t","h","e"," ","r","i","g","h",
    "t"," ","f","l","o","u","r"," ","m","a","t","t","e","r","s"," ","b","e",
    "c","a","u","s","e"," ","s","o","u","r","d","o","u","g","h"," ","b","a",
    "k","i","n","g"," ","r","e","w","a","r","d","s"," ","c","a","r","e","f",
    "u","l"," ","b","a","k","e","r","s"," ","e","v","e","r","y"," ","s","i",
    "n","g","l","e"," ","t","i","m","e">>

\* the number of one-letter words in front of FlourWords in ParaFlour
SpacerWords == 236

\* "<p>x x ... x Choosing the right flour ... every single time</p>"
ParaFlour ==
  <<"<","p",">","x">>
    \o [i \in 1..(2 * (SpacerWords - 1)) |-> IF i % 2 = 1 THEN " " ELSE "x"]
    \o FlourWords \o CloseP

\* 6 words: fewer than the 12 a paragraph needs
\* "<p>A short guide to sourdough baking</p>"
ParaShort ==
  <<"<","p",">","A"," ","s","h","o","r","t"," ","g","u","i","d","e"," ","t",
    "o"," ","s","o","u","r","d","o","u","g","h"," ","b","a","k","i","n","g",
    "<","/","p",">">>

\* 12 words, with a link already in it
\* "<p>Read <a href="/x">our guide to sourdough baking</a> and pick the right flour today</p>"
ParaLinked ==
  <<"<","p",">","R","e","a","d"," ","<","a"," ","h","r","e","f","=","\"","/",
    "x","\"",">","o","u","r"," ","g","u","i","d","e"," ","t","o"," ","s","o",
    "u","r","d","o","u","g","h"," ","b","a","k","i","n","g","<","/","a",">",
    " ","a","n","d"," ","p","i","c","k"," ","t","h","e"," ","r","i","g","h",
    "t"," ","f","l","o","u","r"," ","t","o","d","a","y","<","/","p",">">>

ParaChoices == {ParaGuide, ParaFlour, ParaShort, ParaLinked}

\* The paragraph and the page of the example of the specification, and two
\* more pages with words of the paragraph in their titles
\* "/guides/sourdough"
UrlExample ==
  <<"/","g","u","i","d","e","s","/","s","o","u","r","d","o","u","g","h">>

\* "/p"
UrlPatience ==
  <<"/","p">>

\* "Patience And Flour"
TitlePatience ==
  <<"P","a","t","i","e","n","c","e"," ","A","n","d"," ","F","l","o","u","r">>

PgExample == [url |-> UrlExample, title |-> TitleSourdough, keywords |-> <<>>]
PgPatience == [url |-> UrlPatience, title |-> TitlePatience, keywords |-> <<>>]
ExamplePages == {PgExample, PgSourdough, PgFlour, PgPatience}

\* 12 words
\* "<p>The complete guide to sourdough baking requires patience and the right flour</p>"
ParaExample ==
  <<"<","p",">","T","h","e"," ","c","o","m","p","l","e","t","e"," ","g","u",
    "i","d","e"," ","t","o"," ","s","o","u","r","d","o","u","g","h"," ","b",
    "a","k","i","n","g"," ","r","e","q","u","i","r","e","s"," ","p","a","t",
    "i","e","n","c","e"," ","a","n","d"," ","t","h","e"," ","r","i","g","h",
    "t"," ","f","l","o","u","r","<","/","p",">">>

ExampleParas == {ParaExample, ParaFlour}

\* a page of which one title stem, "bak", occurs in the paragraphs: title
\* "Baking Basics", url "/b"
PgBaking ==
  [url |-> <<"/","b">>,
   title |-> <<"B","a","k","i","n","g"," ","B","a","s","i","c","s">>,
   keywords |-> <<>>]

\* a page whose title has stop-words and a word of 2 letters only: title
\* "To Her The Most", url "/h"
PgStop ==
  [url |-> <<"/","h">>,
   title |-> <<"T","o"," ","H","e","r"," ","T","h","e"," ","M","o","s","t">>,
   keywords |-> <<>>]

\* a block without a paragraph
\* "<h2>Sourdough baking guide</h2>"
BlockHeading ==
  <<"<","h","2",">","S","o","u","r","d","o","u","g","h"," ","b","a","k","i",
    "n","g"," ","g","u","i","d","e","<","/","h","2",">">>

\* the links a caller may hand to injectContextualLinks besides the ones
\* generateLinkOpportunities returned
PlainLink(anchor, url) ==
  [anchor |-> anchor, anchorText |-> anchor, targetUrl |-> url, url |-> url,
   text |-> anchor, context |-> <<>>, priority |-> IntScore(50),
   relevanceScore |-> IntScore(50)]

\* "guide to sourdough baking"
AnchorGuide ==
  <<"g","u","i","d","e"," ","t","o"," ","s","o","u","r","d","o","u","g","h",
    " ","b","a","k","i","n","g">>

\* "the right flour"
AnchorRightFlour ==
  <<"t","h","e"," ","r","i","g","h","t"," ","f","l","o","u","r">>

LinkChoices ==
  {PlainLink(AnchorGuide, UrlSourdough), PlainLink(AnchorRightFlour, UrlFlour)}

\* Further links of a caller: one whose anchor is in all four paragraphs, in
\* another casing; one without an anchor; one without a url; one whose anchor
\* is in no paragraph.
\* "Sourdough Baking"
AnchorBakingCaps ==
  <<"S","o","u","r","d","o","u","g","h"," ","B","a","k","i","n","g">>

\* "rye bread"
AnchorRye ==
  <<"r","y","e"," ","b","r","e","a","d">>

ListedChoices ==
  LinkChoices \cup {PlainLink(AnchorBakingCaps, UrlSourdough),
                    PlainLink(<<>>, UrlSourdough),
                    PlainLink(AnchorGuide, <<>>),
                    PlainLink(AnchorRye, UrlFlour)}


(***************************************************************************)
(* injectContextualLinks                                                   *)
(***************************************************************************)
\* the style attribute of an inserted link (line 313)
LinkStyle ==
  <<"c","o","l","o","r",":"," ","#","0","5","9","6","6","9",";"," ","t","e",
    "x","t","-","d","e","c","o","r","a","t","i","o","n",":"," ","u","n","d",
    "e","r","l","i","n","e",";"," ","t","e","x","t","-","d","e","c","o","r",
    "a","t","i","o","n","-","c","o","l","o","r",":"," ","r","g","b","a","(",
    "5",",","1","5","0",",","1","0","5",",","0",".","3",")",";"," ","t","e",
    "x","t","-","u","n","d","e","r","l","i","n","e","-","o","f","f","s","e",
    "t",":"," ","3","p","x",";"," ","f","o","n","t","-","w","e","i","g","h",
    "t",":"," ","6","0","0",";"," ","t","r","a","n","s","i","t","i","o","n",
    ":"," ","a","l","l"," ","0",".","2","s"," ","e","a","s","e",";">>

Str_href == <<"<","a"," ","h","r","e","f","=","\"">>
Str_style == <<"\""," ","s","t","y","l","e","=","\"">>
Str_endOpen == <<"\"",">">>
Str_closeA == <<"<","/","a",">">>

\* a || b || c || '' on strings: the first non-empty one
FirstNonEmpty(a, b, c) == IF a # <<>> THEN a ELSE IF b # <<>> THEN b ELSE c

\* \b at the gap in front of position i of s (i in 1..Len(s)+1)
WordBoundary(s, i) ==
  LET before == i > 1 /\ IsWordChar(s[i - 1])
      after == i <= Len(s) /\ IsWordChar(s[i])
  IN  before # after

\* The anchor expression of lines 297-300 tried with its <p at position i:
\* [index, anchorAt, to] of the match (index = i, the anchor at anchorAt, the
\* match ending at to), or index 0 when it does not match from i.  Group 2
\* is lazy, so the anchor is taken at its first possible position; neither
\* group 2 nor group 4 runs over a </p>.
AnchorMatchAt(s, i, anchor) ==
  LET m == Len(anchor)
      gt == NextChar(s, i + 2, ">")
      firstClose == NextLit(s, gt + 1, CloseP)
      Here(a) == /\ toLowerCase(s[a]) = toLowerCase(anchor[1])
                 /\ Lower(SubSeq(s, a, a + m - 1)) = Lower(anchor)
                 /\ WordBoundary(s, a)
                 /\ WordBoundary(s, a + m)
                 /\ NextLit(s, a + m, CloseP) # 0
      spots == {a \in (gt + 1)..Min(firstClose, Len(s) - m + 1) : Here(a)}
      at == CHOOSE a \in spots : \A b \in spots : a <= b
  IN  IF ~IsAt(s, i, OpenP) \/ gt = 0 \/ firstClose = 0 \/ spots = {}
        THEN [index |-> 0, anchorAt |-> 0, to |-> 0]
        ELSE [index |-> i, anchorAt |-> at, to |-> NextLit(s, at + m, CloseP) + 3]

\* anchorRe.exec(result): the leftmost match
AnchorMatch(s, anchor) ==
  LET starts == {i \in 1..Len(s) : AnchorMatchAt(s, i, anchor).index # 0}
  IN  IF starts = {} THEN [index |-> 0, anchorAt |-> 0, to |-> 0]
      ELSE AnchorMatchAt(s, CHOOSE i \in starts : \A j \in starts : i <= j, anchor)

\* link.anchor || link.anchorText || link.text || '' (line 290)
LinkAnchor(link) == FirstNonEmpty(link.anchor, link.anchorText, link.text)

\* link.targetUrl || link.url || '' (line 291)
LinkUrl(link) == IF link.targetUrl # <<>> THEN link.targetUrl ELSE link.url

\* the negation of the test of line 292
Usable(anchor, url) == anchor # <<>> /\ url # <<>> /\ Len(anchor) >= 4

\* Replaced as it would be with the anchor of the decision for match[3]
ReplacedByAnchor(result, match, anchor, url) ==
  SubSeq(result, 1, match.anchorAt - 1)
    \o Str_href \o url \o Str_style \o LinkStyle \o Str_endOpen
    \o anchor \o Str_closeA
    \o SubSeq(result, match.anchorAt + Len(anchor), Len(result))

\* Lines 309-315 for the match of the anchor expression: result with the
\* matched paragraph replaced.
Replaced(result, match, anchor, url) ==
  LET m == Len(anchor)
      before == SubSeq(result, match.index, match.anchorAt - 1)
      matched == SubSeq(result, match.anchorAt, match.anchorAt + m - 1)
      after == SubSeq(result, match.anchorAt + m, match.to)
      replacement == before \o Str_href \o url \o Str_style \o LinkStyle
                       \o Str_endOpen \o matched \o Str_closeA \o after
  IN  SubSeq(result, 1, match.index - 1) \o replacement
        \o SubSeq(result, match.to + 1, Len(result))

\* Splice as it would be without the test of line 307
SpliceIntoLinked(result, match, anchor, url) ==
  IF match.index = 0 THEN result ELSE Replaced(result, match, anchor, url)

\* Lines 303-315 for the match of the anchor expression: result after the
\* iteration.
Splice(result, match, anchor, url) ==
  IF match.index = 0 THEN result
  ELSE IF HasLinkMarkup(SubSeq(result, match.index, match.to)) THEN result
  ELSE Replaced(result, match, anchor, url)

\* Lines 302-315 for a usable anchor and url
Rewrite(result, anchor, url) ==
  Splice(result, AnchorMatch(result, anchor), anchor, url)

(***************************************************************************)
(* The article.  An article is kept as the sequence of its blocks, each a  *)
(* string; the string the source works on is Flat(html).  Every block that *)
(* opens a paragraph closes it, so no match of the paragraph expression or *)
(* of the anchor expression runs from one block into the next, and the     *)
(* scans of the source go block by block, in order.  What a scan finds in  *)
(* one of the blocks below is computed once and looked up afterwards.      *)
(***************************************************************************)
RECURSIVE Concat(_)
Concat(ss) == IF ss = <<>> THEN <<>> ELSE ss[1] \o Concat(Tail(ss))

Flat(html) == Concat(html)

\* a table is the set of the pairs <<argument, value>> of a function; the
\* value looked up for an argument not in the table is the one computed
Lookup(table, arg, computed) ==
  IF \E p \in table : p[1] = arg
    THEN (CHOOSE p \in table : p[1] = arg)[2]
    ELSE computed

ParaTexts == {Trim(StripTags(p)) : p \in ParaChoices}
ExampleTable ==
  {<<<<t, pg>>, findBestAnchor(t, pg)>> :
     t \in {Trim(StripTags(p)) : p \in ExampleParas}, pg \in ExamplePages}
    \cup {<<<<t, pg>>, findBestAnchor(t, pg)>> :
            t \in ParaTexts, pg \in {PgBaking, PgStop}}
BestAnchorTable ==
  {<<<<t, pg>>, findBestAnchor(t, pg)>> : t \in ParaTexts, pg \in PageChoices}
BestAnchor(paraText, page) ==
  Lookup(BestAnchorTable \cup ExampleTable, <<paraText, page>>,
         findBestAnchor(paraText, page))

\* the anchors and urls of the links the calls of the model are made with
KnownTargets ==
  {<<LinkAnchor(l), LinkUrl(l)>> :
     l \in {c \in ListedChoices : Usable(LinkAnchor(c), LinkUrl(c))}}
    \cup {<<p[2].anchor, p[1][2].url>> : p \in {q \in BestAnchorTable : q[2] # Null}}
KnownAnchors == {t[1] : t \in KnownTargets}

\* the blocks of the model: the paragraphs above, as they are and with one
\* link inserted
KnownBlocks ==
  ParaChoices \cup {Rewrite(b, t[1], t[2]) : b \in ParaChoices, t \in KnownTargets}

RewriteTable ==
  {<<<<b, t[1], t[2]>>, Rewrite(b, t[1], t[2])>> : b \in KnownBlocks, t \in KnownTargets}
RewriteBlock(block, anchor, url) ==
  Lookup(RewriteTable, <<block, anchor, url>>, Rewrite(block, anchor, url))

MatchTable ==
  {<<<<b, a>>, AnchorMatch(b, a).index # 0>> : b \in KnownBlocks, a \in KnownAnchors}
Matches(block, anchor) ==
  Lookup(MatchTable, <<block, anchor>>, AnchorMatch(block, anchor).index # 0)

\* the paragraphs of one block, numbered from 0 and at the offsets they have
\* in the block
ScanParagraphs(s) == ExtractFrom(s, 1, 0, 0)
BlockTable ==
  {<<b, ScanParagraphs(b)>> : b \in KnownBlocks \cup ExampleParas \cup {BlockHeading}}
BlockParagraphs(block) == Lookup(BlockTable, block, ScanParagraphs(block))

\* Rebase as it would be if cumWords were set to 0 for every paragraph
RebaseWithoutWords(info, base, idx, cumWords) ==
  [info EXCEPT !.index = @ + idx,
               !.startOffset = @ + base,
               !.endOffset = @ + base]

\* a paragraph of a block as extractParagraphs reports it when base
\* characters, idx paragraphs and cumWords words come before the block
Rebase(info, base, idx, cumWords) ==
  [info EXCEPT !.index = @ + idx,
               !.cumulativeWords = @ + cumWords,
               !.startOffset = @ + base,
               !.endOffset = @ + base]

\* the words of the paragraphs found in a block
WordsIn(found) == IF found = <<>> THEN 0 ELSE found[Len(found)].cumulativeWords

\* the paragraphs of the blocks from block b on, found being those of block b
RECURSIVE ExtractBlocks(_, _, _, _, _, _)
ExtractBlocks(html, b, base, idx, cumWords, found) ==
  [k \in 1..Len(found) |-> Rebase(found[k], base, idx, cumWords)]
    \o (IF b = Len(html) THEN <<>>
        ELSE ExtractBlocks(html, b + 1, base + Len(html[b]), idx + Len(found),
                           cumWords + WordsIn(found), BlockParagraphs(html[b + 1])))

\* extractParagraphs (lines 83-106)
extractParagraphs(html) ==
  IF html = <<>> THEN <<>>
  ELSE ExtractBlocks(html, 1, 0, 0, 0, BlockParagraphs(html[1]))

(***************************************************************************)
(* generateLinkOpportunities                                               *)
(***************************************************************************)
\* Eligible as it would be without the second test of line 226
EligibleOfAnyLength(para) == ~para.hasLink

\* Eligible as it would be without the first test of line 226
EligibleWithLink(para) == para.wordCount >= 12

\* the negation of the test of line 226
Eligible(para) == ~para.hasLink /\ para.wordCount >= 12

\* lines 230-237 for the result of findBestAnchor: the candidate pushed, if
\* any.  via is not a field of the source: it tells which part of
\* findBestAnchor the anchor comes from.
Pushed(para, page, result) ==
  IF result = Null THEN <<>>
  ELSE <<[paragraph |-> para, page |-> page, anchor |-> result.anchor,
          score |-> result.score, via |-> result.via]>>

\* the candidates of one paragraph, one per page with a best anchor, in
\* catalog order (lines 228-238)
RECURSIVE ParagraphCandidates(_, _, _)
ParagraphCandidates(para, catalog, k) ==
  IF k > Len(catalog) THEN <<>>
  ELSE Pushed(para, catalog[k], BestAnchor(para.text, catalog[k]))
         \o ParagraphCandidates(para, catalog, k + 1)

\* the candidate pool (lines 223-239), paragraphs in document order
RECURSIVE CandidatePool(_, _, _)
CandidatePool(paragraphs, catalog, i) ==
  IF i > Len(paragraphs) THEN <<>>
  ELSE (IF Eligible(paragraphs[i])
          THEN ParagraphCandidates(paragraphs[i], catalog, 1)
          ELSE <<>>)
       \o CandidatePool(paragraphs, catalog, i + 1)

\* InsertByScore as it would be if the sort put a candidate in front of
\* the ones of equal score
RECURSIVE InsertBeforeEqual(_, _)
InsertBeforeEqual(sorted, c) ==
  IF sorted = <<>> THEN <<c>>
  ELSE IF ~ScoreLess(c.score, sorted[1].score) THEN <<c>> \o sorted
  ELSE <<sorted[1]>> \o InsertBeforeEqual(Tail(sorted), c)

\* candidates.sort((a, b) => b.score - a.score): Array.prototype.sort is
\* stable, so candidates of equal score keep their order in the pool
RECURSIVE InsertByScore(_, _)
InsertByScore(sorted, c) ==
  IF sorted = <<>> THEN <<c>>
  ELSE IF ScoreLess(sorted[1].score, c.score) THEN <<c>> \o sorted
  ELSE <<sorted[1]>> \o InsertByScore(Tail(sorted), c)

RECURSIVE SortByScore(_, _, _)
SortByScore(cands, k, sorted) ==
  IF k > Len(cands) THEN sorted
  ELSE SortByScore(cands, k + 1, InsertByScore(sorted, cands[k]))

\* Skips as it would be without the test of line 252
SkipsButForUrl(c, usedUrls, usedParas, lastCumulativeWords) ==
  \/ c.paragraph.index \in usedParas
  \/ /\ lastCumulativeWords > 0
     /\ c.paragraph.cumulativeWords - lastCumulativeWords < 250

\* Skips as it would be with the test of line 252 alone
SkipsOnUrlOnly(c, usedUrls, usedParas, lastCumulativeWords) ==
  c.page.url \in usedUrls

\* Skips as it would be without the test of line 256
SkipsButForSpacing(c, usedUrls, usedParas, lastCumulativeWords) ==
  \/ c.page.url \in usedUrls
  \/ c.paragraph.index \in usedParas

\* Skips as it would be if line 256 measured the distance in either
\* direction
SkipsByDistance(c, usedUrls, usedParas, lastCumulativeWords) ==
  \/ c.page.url \in usedUrls
  \/ c.paragraph.index \in usedParas
  \/ /\ lastCumulativeWords > 0
     /\ c.paragraph.cumulativeWords - lastCumulativeWords < 250
     /\ lastCumulativeWords - c.paragraph.cumulativeWords < 250

\* the three tests of lines 252-256 that pass a candidate over
Skips(c, usedUrls, usedParas, lastCumulativeWords) ==
  \/ c.page.url \in usedUrls
  \/ c.paragraph.index \in usedParas
  \/ /\ lastCumulativeWords > 0
     /\ c.paragraph.cumulativeWords - lastCumulativeWords < 250

\* the greedy loop (lines 250-272) from candidate k on; taken is the list of
\* the candidates accepted so far (selected holds one InternalLink for each)
RECURSIVE GreedySelect(_, _, _, _, _, _, _)
GreedySelect(cands, k, limit, taken, usedUrls, usedParas, lastCumulativeWords) ==
  IF k > Len(cands) THEN taken
  ELSE IF Len(taken) >= limit THEN taken
  ELSE IF Skips(cands[k], usedUrls, usedParas, lastCumulativeWords)
    THEN GreedySelect(cands, k + 1, limit, taken, usedUrls, usedParas,
                      lastCumulativeWords)
    ELSE GreedySelect(cands, k + 1, limit, Append(taken, cands[k]),
                      usedUrls \cup {cands[k].page.url},
                      usedParas \cup {cands[k].paragraph.index},
                      cands[k].paragraph.cumulativeWords)

\* an argument or field that was left out or is undefined is <<>>, one that
\* has the value v is <<v>>
Undefined == <<>>
Some(v) == <<v>>

\* Limit as it would be if line 219 ignored the argument
LimitOfTen(maxLinks) == 10

\* maxLinks ?? 10 (line 219)
Limit(maxLinks) == IF maxLinks = Undefined THEN 10 ELSE maxLinks[1]

\* the sorted candidate pool of a call (lines 220-242); the early return of
\* line 220 leaves it empty
Candidates(catalog, html) ==
  IF Len(catalog) = 0 THEN <<>>
  ELSE SortByScore(CandidatePool(extractParagraphs(html), catalog, 1), 1, <<>>)

\* the candidates the loop of lines 250-272 accepts
Select(cands, maxLinks) == GreedySelect(cands, 1, Limit(maxLinks), <<>>, {}, {}, 0)

\* the InternalLink pushed for an accepted candidate (lines 258-267)
InternalLink(c) ==
  [anchor |-> c.anchor,
   anchorText |-> c.anchor,
   targetUrl |-> c.page.url,
   url |-> c.page.url,
   text |-> c.anchor,
   context |-> SubSeq(c.paragraph.text, 1, Min(120, Len(c.paragraph.text))),
   priority |-> c.score,
   relevanceScore |-> IF ScoreLess(IntScore(100), c.score) THEN IntScore(100)
                      ELSE c.score]

Links(taken) == [k \in 1..Len(taken) |-> InternalLink(taken[k])]

generateLinkOpportunities(catalog, html, maxLinks) ==
  Links(Select(Candidates(catalog, html), maxLinks))

(***************************************************************************)
(* injectContextualLinks                                                   *)
(***************************************************************************)
\* One iteration of the loop of lines 289-316: the anchor expression finds
\* its leftmost match in the first block that has one, and lines 302-315
\* work on that block.
RewriteFirst(result, anchor, url, hit) ==
  LET first == CHOOSE b \in hit : \A c \in hit : b <= c
  IN  IF hit = {} THEN result
      ELSE [result EXCEPT ![first] = RewriteBlock(result[first], anchor, url)]

InjectOne(result, link) ==
  IF ~Usable(LinkAnchor(link), LinkUrl(link)) THEN result
  ELSE RewriteFirst(result, LinkAnchor(link), LinkUrl(link),
                    {b \in 1..Len(result) : Matches(result[b], LinkAnchor(link))})

RECURSIVE InjectFrom(_, _, _)
\* InjectFrom as it would be with break for the continue of lines 292, 303
\* and 307
InjectFromUntilSkipped(result, links, k) ==
  IF k > Len(links) THEN result
  ELSE IF InjectOne(result, links[k]) = result THEN result
  ELSE InjectFrom(InjectOne(result, links[k]), links, k + 1)

\* the loop of lines 289-316 from link k on
InjectFrom(result, links, k) ==
  IF k > Len(links) THEN result
  ELSE InjectFrom(InjectOne(result, links[k]), links, k + 1)

\* injectContextualLinks (lines 280-319)
injectContextualLinks(html, links) ==
  IF Len(links) = 0 THEN html ELSE InjectFrom(html, links, 1)

(***************************************************************************)
(* The calls.  The bounds on what they are made with:                      *)
(***************************************************************************)
MaxParas == 2
MaxPages == 2
MaxLimit == 1
MaxGiven == 1
MaxListed == 2
MaxExampleParas == 4
MaxExamplePages == 4
MaxScanned == 3

SeqsUpTo(S, n) == UNION {[1..k -> S] : k \in 0..n}

Catalogs == SeqsUpTo(PageChoices, MaxPages)
Docs == SeqsUpTo(ParaChoices, MaxParas)
MaxLinksArgs == {Undefined} \cup {Some(n) : n \in 0..MaxLimit}
GivenLinks == SeqsUpTo(LinkChoices, MaxGiven)
ListedLinks == SeqsUpTo(ListedChoices, MaxListed)
CatalogArgs == {Undefined} \cup {Some(c) : c \in Catalogs}
ExampleCatalogs ==
  {c \in SeqsUpTo(ExamplePages, MaxExamplePages) :
     \A i, j \in 1..Len(c) : c[i] = c[j] => i = j}
ExampleDocs == SeqsUpTo(ExampleParas, MaxExampleParas)
ScanDocs == SeqsUpTo({ParaGuide, ParaShort, ParaLinked, BlockHeading}, MaxScanned)
ScanCatalogs == {<<PgSourdough, PgFlour>>, <<PgStop, PgBaking, PgFlour>>}

VARIABLES
  pagesArg,    \* what the constructor or the last updateSitePages was given
  pages,       \* this.pages
  article,     \* the article of the caller (the html argument of the calls)
  op,          \* the last call
  subject,     \* what the last generateLinkOpportunities was given: the
               \* article, or the article injectContextualLinks returned
  maxLinksArg, \* the maxLinks it was given
  threw,       \* whether it raised a TypeError
  candidates,  \* its candidate pool, sorted (line 242)
  accepted,    \* the candidates it accepted, in the order of acceptance
  selected,    \* the list it returned
  linksArg,    \* the links the last injectContextualLinks was given
  rewritten,   \* the article it returned
  former,      \* history: the urls of the pages of earlier catalogs that are
               \* not in this.pages
  earlier      \* history: the first generateLinkOpportunities call for the
               \* article, with what it was given and what it returned

\* The other programs of the repository that are modelled: the publish hook
\* (src/hooks/useWordPressPublish.ts), the cache of the server
\* (server/cache.ts), its rate limit (middleware) and the slug helper
\* (src/lib/wordpress/slug.ts).  They share no state with the engine.
VARIABLES
  isPublishing,  \* the hook: the isPublishing state
  publishResult, \* the hook: the publishResult state
  run,           \* the hook: the publish call in flight, where it is and
                 \* its locals attempt, lastError and data
  promise,       \* the hook: the promise publish returned
  now,           \* Date.now()
  defaultTtlMs,  \* the cache: this.defaultTtlMs
  store,         \* the cache: this.store
  got,           \* the cache: the last call and what it returned
  written,       \* history: for every key the value and expiry time of the
                 \* last set that no delete or clear followed
  options,       \* the rate limit: windowMs and max
  hits,          \* the rate limit: the hits map
  handled,       \* the rate limit: the last request and what became of it
  requests,      \* history: the requests handled so far
  slugInput,     \* the slug helper: the input of toSafeWpSlug
  slugOutput     \* the slug helper: what it returned

engine == <<pagesArg, pages, article, op, subject, maxLinksArg, threw, candidates, accepted,
            selected, linksArg, rewritten, former, earlier>>
hook == <<isPublishing, publishResult, run, promise>>
cache == <<defaultTtlMs, store, got, written>>
limiter == <<options, hits, handled, requests>>
slugs == <<slugInput, slugOutput>>
vars == <<engine, hook, now, cache, limiter, slugs>>

\* a Map without entries; a Map is the function from its keys to its values
EmptyMap == [k \in {} |-> Undefined]

\* no publish call was made yet
NoCall == [at |-> "idle", attempt |-> 0, fetches |-> 0, lastError |-> Undefined,
           data |-> Undefined]

\* the hook as first rendered (useWordPressPublish.ts, lines 13-14)
Mounted ==
  /\ isPublishing = FALSE
  /\ publishResult = Undefined
  /\ run = NoCall
  /\ promise = [state |-> "none", value |-> Undefined]

\* no cache, no rate limit, no slug: the state of each while another program
\* is looked at
CacheUnused ==
  /\ defaultTtlMs = Undefined
  /\ store = EmptyMap
  /\ got = Undefined
  /\ written = EmptyMap
LimiterUnused ==
  /\ options = Undefined
  /\ hits = EmptyMap
  /\ handled = Undefined
  /\ requests = <<>>
SlugUnused ==
  /\ slugInput = Undefined
  /\ slugOutput = Undefined

\* PagesOrEmpty as it would be with this.pages = pages
PagesAsGiven(arg) == arg

\* pages || [] (lines 208 and 212)
PagesOrEmpty(arg) == IF arg = Undefined THEN Some(<<>>) ELSE arg

\* what the state keeps of a candidate
Brief(c) ==
  [index |-> c.paragraph.index,
   wordCount |-> c.paragraph.wordCount,
   cumulativeWords |-> c.paragraph.cumulativeWords,
   hasLink |-> c.paragraph.hasLink,
   url |-> c.page.url,
   anchor |-> c.anchor,
   score |-> c.score,
   via |-> c.via]

Briefs(cands) == [k \in 1..Len(cands) |-> Brief(cands[k])]

\* the article the last call was given
Subject == IF subject = "rewritten" THEN rewritten[1] ELSE article

\* the constructor (lines 207-209), given one of catalogs, for a caller
\* with one of docs
Engine(catalogs, docs) ==
  /\ pagesArg \in catalogs
  /\ pages = PagesOrEmpty(pagesArg)
  /\ article \in docs
  /\ op = "new"
  /\ subject = "article"
  /\ maxLinksArg = Undefined
  /\ threw = FALSE
  /\ candidates = <<>>
  /\ accepted = <<>>
  /\ selected = <<>>
  /\ linksArg = <<>>
  /\ rewritten = Undefined
  /\ former = {}
  /\ earlier = Undefined

(***************************************************************************)
(* The publish hook (src/hooks/useWordPressPublish.ts, lines 12-169).      *)
(* publish is an async function: it runs to its first await in the step of *)
(* the call, and from the settling of one awaited promise to the next      *)
(* await, or to its end, in one step.  An Error is the record of its name  *)
(* and message, a PublishResult the record of its fields.                  *)
(***************************************************************************)
\* const maxAttempts = 3 (line 76)
maxAttempts == 3

\* what the store and getSupabaseConfig() hold when publish is called: for
\* each the error lines 34-72 throw, "" when they throw none
SetupError ==
  [ok |-> "",
   unconfigured |-> "WordPress not configured. Add WordPress URL, username, and application password in Setup.",
   protocol |-> "WordPress URL must use HTTP or HTTPS",
   malformed |-> "Invalid WordPress URL format",
   supabase |-> "Supabase not configured. Open Setup -> Supabase and add your project URL + anon key, then reload."]

\* what one attempt (lines 82-111) comes to: fetch or response.text()
\* rejects, the text is empty, it is not JSON, or it is JSON
Rejections ==
  {[name |-> "TypeError", message |-> "Failed to fetch"],
   [name |-> "TimeoutError", message |-> "The operation timed out."],
   [name |-> "AbortError", message |-> "The operation was aborted."],
   [name |-> "Error", message |-> "Server returned empty response (HTTP 200). Try again."],
   [name |-> "Error", message |-> "Server error (HTTP 502). Try again in a moment."],
   [name |-> "Error", message |-> "Invalid response from server (HTTP 404): Not Found"],
   [name |-> "Error", message |-> "Invalid response from server (HTTP 400): Function not configured"]}
Parsed ==
  {[success |-> TRUE, error |-> "", status |-> 0, post |-> Some([id |-> 7, url |-> "/p"])],
   [success |-> TRUE, error |-> "", status |-> 0, post |-> Undefined],
   [success |-> FALSE, error |-> "", status |-> 0, post |-> Undefined],
   [success |-> FALSE, error |-> "Authentication failed", status |-> 0, post |-> Undefined],
   [success |-> FALSE, error |-> "Forbidden", status |-> 403, post |-> Undefined],
   [success |-> FALSE, error |-> "No route", status |-> 404, post |-> Undefined],
   [success |-> FALSE, error |-> "Post rejected", status |-> 400, post |-> Undefined]}

\* lines 114-116
isRetryable(error) ==
  /\ error.message \notin {SetupError.unconfigured, SetupError.supabase,
                           "Invalid response from server (HTTP 400): Function not configured"}
  /\ error.message # SetupError.malformed
  /\ error.name # "AbortError"

\* lines 121-124: what the loop throws when it does not go on
Rethrown(error) ==
  IF error.name = "TimeoutError"
    THEN [name |-> "Error",
          message |-> "WordPress publish timed out after 90 seconds. The post may be too large."]
    ELSE error

\* lines 129-139: the message for data without success
errorMsg(data, lastError) ==
  IF data.status = 401 \/ data.error = "Authentication failed"
    THEN "WordPress authentication failed. Check your username and application password in Setup."
  ELSE IF data.status = 403
    THEN "Permission denied. Ensure the WordPress user has publishing capabilities."
  ELSE IF data.status = 404
    THEN "WordPress REST API not found. Ensure permalinks are enabled."
  ELSE IF data.error # "" THEN data.error
  ELSE IF lastError # Undefined THEN lastError[1].message
  ELSE "Failed to publish to WordPress"

\* lines 145-149 and 156-159
Published(data) ==
  [success |-> TRUE, post |-> data.post, error |-> Undefined]
Failed(message) ==
  [success |-> FALSE, post |-> Undefined, error |-> Some(message)]

\* Caught as it would be without the catch of line 154
Uncaught(message) == [state |-> "rejected", value |-> Undefined]

\* lines 154-161: what the promise of publish comes to when the body throws
Caught(message) == [state |-> "resolved", value |-> Some(Failed(message))]

\* lines 151-152 or 160-161, then 163: the call ends with the promise as
\* given
Settled(outcome, locals) ==
  /\ publishResult' = outcome.value
  /\ isPublishing' = FALSE
  /\ promise' = outcome
  /\ run' = [locals EXCEPT !.at = "done"]

\* lines 30-82: publish is called while no call is in flight
Publish ==
  /\ run.at \in {"idle", "done"}
  /\ \E setup \in DOMAIN SetupError :
       IF SetupError[setup] # ""
         THEN Settled(Caught(SetupError[setup]), NoCall)
         ELSE /\ isPublishing' = TRUE
              /\ publishResult' = Undefined
              /\ promise' = [state |-> "pending", value |-> Undefined]
              /\ run' = [NoCall EXCEPT !.at = "fetch", !.fetches = 1]
  /\ UNCHANGED <<engine, now, cache, limiter, slugs>>

\* lines 92-161: the attempt under way fails, and the loop goes on to its
\* timer or throws
AttemptFails ==
  /\ run.at = "fetch"
  /\ \E error \in Rejections :
       LET locals == [run EXCEPT !.lastError = Some(error)]
       IN  IF run.attempt < maxAttempts - 1 /\ isRetryable(error)
             THEN /\ run' = [locals EXCEPT !.at = "timer"]
                  /\ UNCHANGED <<isPublishing, publishResult, promise>>
             ELSE Settled(Caught(Rethrown(error).message), locals)
  /\ UNCHANGED <<engine, now, cache, limiter, slugs>>

\* lines 92-111 and 128-163: the attempt under way returns JSON
AttemptParses ==
  /\ run.at = "fetch"
  /\ \E data \in Parsed :
       LET locals == [run EXCEPT !.data = Some(data)]
       IN  IF data.success
             THEN Settled([state |-> "resolved", value |-> Some(Published(data))],
                          locals)
             ELSE Settled(Caught(errorMsg(data, run.lastError)), locals)
  /\ UNCHANGED <<engine, now, cache, limiter, slugs>>

\* lines 118-119 and 80-82: the timer fires and the next attempt is made
TimerFires ==
  /\ run.at = "timer"
  /\ run' = [run EXCEPT !.at = "fetch", !.attempt = @ + 1, !.fetches = @ + 1]
  /\ UNCHANGED <<isPublishing, publishResult, promise>>
  /\ UNCHANGED <<engine, now, cache, limiter, slugs>>

\* clearResult (lines 167-169)
ClearResult ==
  /\ publishResult # Undefined
  /\ publishResult' = Undefined
  /\ UNCHANGED <<isPublishing, run, promise>>
  /\ UNCHANGED <<engine, now, cache, limiter, slugs>>

(***************************************************************************)
(* The clock, and the cache of the server (server/cache.ts).               *)
(***************************************************************************)
MaxClock == 2
MaxTtl == 1

\* Date.now() moves on
Tick ==
  /\ now < MaxClock
  /\ now' = now + 1
  /\ UNCHANGED <<engine, hook, cache, limiter, slugs>>

\* map.set(key, value) and map.delete(key)
MapSet(map, key, value) ==
  [k \in DOMAIN map \cup {key} |-> IF k = key THEN value ELSE map[k]]
MapDelete(map, key) == [k \in DOMAIN map \ {key} |-> map[k]]

\* the default of the constructor (line 9)
DefaultTtlMs == 60000

Keys == {"a", "b"}
Values == {"v", "w"}
TtlArgs == {Undefined} \cup {Some(t) : t \in 0..MaxTtl}

\* new TTLCache(ttl) (lines 7-9)
NewTTLCache ==
  /\ \E ttl \in TtlArgs \ {Some(0)} :
       defaultTtlMs = IF ttl = Undefined THEN DefaultTtlMs ELSE ttl[1]
  /\ store = EmptyMap
  /\ got = Undefined
  /\ written = EmptyMap

\* Expired as it would be if line 15 never held
NeverExpired(entry, time) == FALSE

\* line 15
Expired(entry, time) == time > entry.expiresAt

\* get(key) (lines 11-21)
Get(key) ==
  /\ IF key \notin DOMAIN store
       THEN /\ got' = Some([key |-> key, value |-> Undefined, at |-> now])
            /\ UNCHANGED store
       ELSE IF Expired(store[key], now)
         THEN /\ store' = MapDelete(store, key)
              /\ got' = Some([key |-> key, value |-> Undefined, at |-> now])
         ELSE /\ got' = Some([key |-> key, value |-> Some(store[key].value),
                              at |-> now])
              /\ UNCHANGED store
  /\ UNCHANGED <<defaultTtlMs, written>>

\* set(key, value, ttlMs) (lines 23-25)
Set(key, value, ttlMs) ==
  LET ttl == IF ttlMs = Undefined THEN defaultTtlMs ELSE ttlMs[1]
      entry == [value |-> value, expiresAt |-> now + ttl]
  IN  /\ store' = MapSet(store, key, entry)
      /\ written' = MapSet(written, key, entry)
      /\ got' = Undefined
      /\ UNCHANGED defaultTtlMs

\* delete(key) (lines 27-29)
Delete(key) ==
  /\ store' = MapDelete(store, key)
  /\ written' = MapDelete(written, key)
  /\ got' = Undefined
  /\ UNCHANGED defaultTtlMs

\* clear() (lines 31-33)
Clear ==
  /\ store' = EmptyMap
  /\ written' = EmptyMap
  /\ got' = Undefined
  /\ UNCHANGED defaultTtlMs

CacheGet == \E key \in Keys : Get(key) /\ UNCHANGED <<engine, hook, now, limiter, slugs>>
CacheSet ==
  \E key \in Keys, value \in Values, ttlMs \in TtlArgs :
    Set(key, value, ttlMs) /\ UNCHANGED <<engine, hook, now, limiter, slugs>>
CacheDelete ==
  \E key \in Keys : Delete(key) /\ UNCHANGED <<engine, hook, now, limiter, slugs>>
CacheClear == Clear /\ UNCHANGED <<engine, hook, now, limiter, slugs>>

(***************************************************************************)
(* The rate limit of the server (basicRateLimit of the middleware, the     *)
(* same in both copies but for the key, which is req.ip or "unknown" in    *)
(* one and getClientIp(req) in the other).                                 *)
(***************************************************************************)
MaxWindow == 1
MaxRate == 2
MaxRequests == 4

\* what basicRateLimit is given: nothing, or windowMs and max
OptionArgs ==
  {Undefined} \cup {Some([windowMs |-> w, max |-> m]) : w \in 1..MaxWindow, m \in 1..MaxRate}
\* the address of a request, if it has one
Addresses == {Undefined, Some("10.0.0.1")}

\* lines 27-28
windowMs == IF options = Undefined THEN 60000 ELSE options[1].windowMs
max == IF options = Undefined THEN 60 ELSE options[1].max

\* basicRateLimit(given) (lines 26-30)
BasicRateLimit ==
  /\ options \in OptionArgs
  /\ hits = EmptyMap
  /\ handled = Undefined
  /\ requests = <<>>

\* line 33
ClientKey(ip) == IF ip = Undefined THEN "unknown" ELSE ip[1]

\* Opens as it would be if line 37 opened no new window after resetAt
OpensNever(key, time) == key \notin DOMAIN hits

\* line 37
Opens(key, time) == key \notin DOMAIN hits \/ time > hits[key].resetAt

\* the middleware (lines 32-53) for a request of key: the map after it and
\* whether it was handed to next()
Counted(key) == [hits[key] EXCEPT !.count = @ + 1]
Handle(key) ==
  LET passed == Opens(key, now) \/ Counted(key).count <= max
  IN  /\ hits' = IF Opens(key, now)
                   THEN MapSet(hits, key, [count |-> 1, resetAt |-> now + windowMs])
                   ELSE MapSet(hits, key, Counted(key))
      /\ handled' = Some([key |-> key, at |-> now, passed |-> passed])
      /\ requests' = Append(requests, handled'[1])
      /\ UNCHANGED options

Request ==
  /\ Len(requests) < MaxRequests
  /\ \E ip \in Addresses : Handle(ClientKey(ip))
  /\ UNCHANGED <<engine, hook, now, cache, slugs>>

(***************************************************************************)
(* The slug helper (src/lib/wordpress/slug.ts, lines 34-44).               *)
(***************************************************************************)
\* .slice(0, 60) (line 43)
SlugLimit == 60
MaxPad == 61

\* s without the characters of chars it starts with, or ends with
StripLeft(s, chars) ==
  IF \A i \in 1..Len(s) : s[i] \in chars THEN <<>>
  ELSE SubSeq(s, CHOOSE i \in 1..Len(s) :
                   s[i] \notin chars /\ \A j \in 1..(i - 1) : s[j] \in chars,
              Len(s))
StripRight(s, chars) ==
  IF \A i \in 1..Len(s) : s[i] \in chars THEN <<>>
  ELSE SubSeq(s, 1, CHOOSE i \in 1..Len(s) :
                      s[i] \notin chars /\ \A j \in (i + 1)..Len(s) : s[j] \in chars)

\* s with every run of characters of chars replaced by with
ReplaceRuns(s, chars, with) ==
  LET Starts(i) == s[i] \notin chars \/ i = 1 \/ s[i - 1] \notin chars
      kept == SelectSeq([i \in 1..Len(s) |-> i], Starts)
  IN  [k \in 1..Len(kept) |-> IF s[kept[k]] \in chars THEN with ELSE s[kept[k]]]

\* toSafeWpSlug (lines 34-44), step by step
toSafeWpSlug(input) ==
  LET Allowed(c) == c \in LowerSet \cup DigitSet \cup {" ", "\n", "\t", "-"}
      lowered == Lower(Trim(input))
      unslashed == StripLeft(lowered, {"/"})
      allowed == SelectSeq(unslashed, Allowed)
      dashed == ReplaceRuns(allowed, {" ", "\n", "\t"}, "-")
      single == ReplaceRuns(dashed, {"-"}, "-")
      bare == StripRight(StripLeft(single, {"-"}), {"-"})
  IN  SubSeq(bare, 1, Min(SlugLimit, Len(bare)))

\* the inputs: a run of the letter a between one of the heads and one of
\* the tails
Pad(n) == [i \in 1..n |-> "a"]
Heads == {<<>>, <<"/", "/">>, <<" ", "-">>, <<"T", "o", "p", " ">>}
Tails == {<<>>, <<"-", "b">>, <<" ", "b">>, <<"-", " ", "-", "b">>, <<"!", "B", "2">>,
          <<"-", "\t">>}
SlugInputs ==
  {h \o Pad(n) \o t : h \in Heads, t \in Tails,
                      n \in {0, 1} \cup ((SlugLimit - 5)..MaxPad)}

\* a caller with one of the inputs
SlugCaller ==
  /\ slugInput \in {Some(x) : x \in SlugInputs}
  /\ slugOutput = Undefined

\* the call
ToSafeWpSlug ==
  /\ slugOutput = Undefined
  /\ slugOutput' = Some(toSafeWpSlug(slugInput[1]))
  /\ UNCHANGED <<slugInput, engine, hook, now, cache, limiter>>

\* the engine constructed, with nothing else in use
New(catalogs, docs) ==
  /\ Engine(catalogs, docs)
  /\ Mounted
  /\ now = 0
  /\ CacheUnused
  /\ LimiterUnused
  /\ SlugUnused

Init == New(CatalogArgs, Docs)

\* SetPages as it would be if updateSitePages added the pages to this.pages
SetPagesAdding(arg) ==
  /\ pagesArg' = arg
  /\ pages' = IF pages = Undefined THEN PagesOrEmpty(arg)
              ELSE Some(pages[1] \o PagesOrEmpty(arg)[1])
  /\ op' = "updateSitePages"
  /\ subject' = "article"
  /\ maxLinksArg' = Undefined
  /\ threw' = FALSE
  /\ candidates' = <<>>
  /\ accepted' = <<>>
  /\ selected' = <<>>
  /\ linksArg' = <<>>
  /\ rewritten' = Undefined
  /\ UNCHANGED article

\* updateSitePages (lines 211-213) given arg
SetPages(arg) ==
  /\ pagesArg' = arg
  /\ pages' = PagesOrEmpty(arg)
  /\ op' = "updateSitePages"
  /\ subject' = "article"
  /\ maxLinksArg' = Undefined
  /\ threw' = FALSE
  /\ candidates' = <<>>
  /\ accepted' = <<>>
  /\ selected' = <<>>
  /\ linksArg' = <<>>
  /\ rewritten' = Undefined
  /\ UNCHANGED article

UpdateSitePages ==
  \E arg \in CatalogArgs : SetPages(arg) /\ UNCHANGED <<former, earlier, hook, now, cache, limiter, slugs>>

\* generateLinkOpportunities (lines 218-275), for the article or for the
\* article the injectContextualLinks before it returned.  this.pages.length
\* of line 220 raises a TypeError when this.pages is undefined.
Generated(arg, on, raises, cands, taken) ==
  /\ op' = "generateLinkOpportunities"
  /\ subject' = on
  /\ maxLinksArg' = arg
  /\ threw' = raises
  /\ candidates' = Briefs(cands)
  /\ accepted' = Briefs(taken)
  /\ selected' = Links(taken)
  /\ linksArg' = IF on = "rewritten" THEN linksArg ELSE <<>>
  /\ rewritten' = IF on = "rewritten" THEN rewritten ELSE Undefined
  /\ UNCHANGED <<pagesArg, pages, article>>

\* Pooled as it would be if usedUrls (line 245) were a field of the engine
\* that kept the urls of the call before
PooledCarrying(arg, on, raises, cands) ==
  Generated(arg, on, raises, cands,
            GreedySelect(cands, 1, Limit(arg), <<>>,
                         {selected[k].targetUrl : k \in 1..Len(selected)}, {}, 0))

Pooled(arg, on, raises, cands) ==
  Generated(arg, on, raises, cands, Select(cands, arg))

Called(arg, on) ==
  Pooled(arg, on, pages = Undefined,
         IF pages = Undefined THEN <<>>
         ELSE Candidates(pages[1], IF on = "rewritten" THEN rewritten[1]
                                   ELSE article))

GenerateLinkOpportunities ==
  \E arg \in MaxLinksArgs,
     on \in {"article"} \cup (IF rewritten = Undefined THEN {} ELSE {"rewritten"}) :
    Called(arg, on) /\ UNCHANGED <<former, earlier, hook, now, cache, limiter, slugs>>

\* injectContextualLinks (lines 280-319) for the article, with the list the
\* generateLinkOpportunities before it returned or with a list of the caller
Injected(given) ==
  /\ op' = "injectContextualLinks"
  /\ subject' = "article"
  /\ linksArg' = given
  /\ rewritten' = Some(injectContextualLinks(article, given))
  /\ maxLinksArg' = Undefined
  /\ threw' = FALSE
  /\ candidates' = <<>>
  /\ accepted' = <<>>
  /\ selected' = <<>>
  /\ UNCHANGED <<pagesArg, pages, article>>

InjectContextualLinks ==
  \E given \in (IF op = "generateLinkOpportunities" /\ subject = "article"
                    THEN {selected} ELSE {}) \cup GivenLinks :
    Injected(given) /\ UNCHANGED <<former, earlier, hook, now, cache, limiter, slugs>>

Next == UpdateSitePages \/ GenerateLinkOpportunities \/ InjectContextualLinks

Spec == Init /\ [][Next]_vars

(***************************************************************************)
(* One injectContextualLinks call on a new engine, given a list of up to   *)
(* MaxListed of the links of ListedChoices.                                *)
(***************************************************************************)
InitInjecting == Init /\ pagesArg = Some(<<PgSourdough, PgFlour>>)

InjectListed ==
  /\ op = "new"
  /\ \E given \in ListedLinks : Injected(given)
  /\ UNCHANGED <<former, earlier, hook, now, cache, limiter, slugs>>

NextInjecting == InjectListed

Injecting == InitInjecting /\ [][NextInjecting]_vars

(***************************************************************************)
(* The calls of an engine whose catalog is replaced, with the history of   *)
(* the catalog kept in former.                                             *)
(***************************************************************************)
UrlsOf(catalog) == {catalog[k].url : k \in 1..Len(catalog)}

ReplacePages ==
  \E arg \in CatalogArgs :
    /\ SetPages(arg)
    /\ former' = (former \cup UrlsOf(pages[1])) \ UrlsOf(PagesOrEmpty(arg)[1])
    /\ UNCHANGED <<earlier, hook, now, cache, limiter, slugs>>

\* injectContextualLinks with the list the generateLinkOpportunities before
\* it returned for the article
InjectReturned ==
  /\ op = "generateLinkOpportunities"
  /\ subject = "article"
  /\ Injected(selected)
  /\ UNCHANGED <<former, earlier, hook, now, cache, limiter, slugs>>

NextReplacing == ReplacePages \/ GenerateLinkOpportunities \/ InjectReturned

Replacing == Init /\ [][NextReplacing]_vars

(***************************************************************************)
(* The generateLinkOpportunities and injectContextualLinks calls of an     *)
(* engine constructed with a catalog of two pages, with the first          *)
(* generateLinkOpportunities call for the article kept in earlier: the     *)
(* catalog and the maxLinks it had, what it returned, and whether a call   *)
(* with other inputs, or an injectContextualLinks call, has come after it. *)
(***************************************************************************)
SameInputs(arg, on) ==
  /\ on = "article"
  /\ earlier[1].pages = pages
  /\ earlier[1].maxLinks = arg

Between == Some([earlier[1] EXCEPT !.between = TRUE])

GenerateAgain ==
  \E arg \in MaxLinksArgs,
     on \in {"article"} \cup (IF rewritten = Undefined THEN {} ELSE {"rewritten"}) :
    /\ Called(arg, on)
    /\ earlier' = IF earlier = Undefined
                    THEN IF on = "article"
                           THEN Some([pages |-> pages, maxLinks |-> arg,
                                      links |-> selected', threw |-> threw',
                                      between |-> FALSE])
                           ELSE earlier
                  ELSE IF SameInputs(arg, on) THEN earlier ELSE Between
    /\ UNCHANGED <<former, hook, now, cache, limiter, slugs>>

InjectBetween ==
  \E given \in (IF op = "generateLinkOpportunities" /\ subject = "article"
                    THEN {selected} ELSE {}) \cup GivenLinks :
    /\ Injected(given)
    /\ earlier' = IF earlier = Undefined THEN earlier ELSE Between
    /\ UNCHANGED <<former, hook, now, cache, limiter, slugs>>

NextRepeating == GenerateAgain \/ InjectBetween

Repeating == InitInjecting /\ [][NextRepeating]_vars

(***************************************************************************)
(* generateLinkOpportunities on an engine constructed with a catalog of    *)
(* up to MaxExamplePages of the example pages, each page once, for an      *)
(* article of up to MaxExampleParas of the example paragraphs.             *)
(***************************************************************************)
InitExamples == New({Some(c) : c \in ExampleCatalogs}, ExampleDocs)

NextExamples == GenerateLinkOpportunities

Examples == InitExamples /\ [][NextExamples]_vars

(***************************************************************************)
(* generateLinkOpportunities on an engine constructed with one of two      *)
(* catalogs, for an article of up to MaxScanned blocks, paragraphs and     *)
(* headings.                                                               *)
(***************************************************************************)
InitScanning == New({Some(c) : c \in ScanCatalogs}, ScanDocs)

Scanning == InitScanning /\ [][NextExamples]_vars

(***************************************************************************)
(* Properties.  In a state whose op is "generateLinkOpportunities" the     *)
(* variables candidates, accepted and selected are the pool, the accepted  *)
(* candidates and the returned list of one call; in a state whose op is    *)
(* "injectContextualLinks", rewritten is what the call returned.           *)
(***************************************************************************)
AfterGenerate == op = "generateLinkOpportunities"
AfterInject == op = "injectContextualLinks"

\* the limit of the last call, as the caller reads it
LimitGiven == IF maxLinksArg = Undefined THEN 10 ELSE maxLinksArg[1]

\* the words of the paragraph in block b (every block is one paragraph)
BlockWords(block) == BlockParagraphs(block)[1].wordCount

RECURSIVE WordsUpTo(_, _)
WordsUpTo(blocks, k) ==
  IF k = 0 THEN 0 ELSE WordsUpTo(blocks, k - 1) + BlockWords(blocks[k])

\* a candidate that the paragraph test and the spacing test would let pass
\* after the first accepted one
PassesAfterFirst(c) ==
  /\ c.index # accepted[1].index
  /\ c.cumulativeWords - accepted[1].cumulativeWords >= 250

\* C1: in the list one generateLinkOpportunities call returns, the target
\* URLs of the decisions are pairwise distinct, whatever the article, the
\* catalog (one that lists a URL twice included) and maxLinks.
TargetUrlsDistinct ==
  AfterGenerate =>
    \A i, j \in 1..Len(selected) :
      i # j => selected[i].targetUrl # selected[j].targetUrl

\* a call that passed over a candidate only because its URL was used
UrlAlreadyUsed ==
  /\ AfterGenerate
  /\ maxLinksArg = Undefined
  /\ Len(accepted) = 1
  /\ \E i, j \in 1..Len(pages[1]) : i # j /\ pages[1][i].url = pages[1][j].url
  /\ \E k \in 1..Len(candidates) :
       /\ candidates[k].url = accepted[1].url
       /\ PassesAfterFirst(candidates[k])

\* C2: in the list one generateLinkOpportunities call returns, no two
\* decisions come from the same paragraph, also when several pages have a
\* candidate in that paragraph.
ParagraphsDistinct ==
  AfterGenerate =>
    \A i, j \in 1..Len(accepted) :
      i # j => accepted[i].index # accepted[j].index

\* a call in which two pages had a candidate in the one paragraph of the
\* article, and one of them was accepted
TwoPagesOneParagraph ==
  /\ AfterGenerate
  /\ maxLinksArg = Undefined
  /\ Len(Subject) = 1
  /\ Len(accepted) = 1
  /\ \E k \in 1..Len(candidates) :
       /\ candidates[k].index = accepted[1].index
       /\ candidates[k].url # accepted[1].url

\* C3: ordered by paragraph index, every two neighbouring decisions of a
\* result are in paragraphs whose cumulative word counts differ by at
\* least 250.
NeighboursSpaced ==
  AfterGenerate =>
    \A i, j \in 1..Len(accepted) :
      (/\ accepted[i].index < accepted[j].index
       /\ \A k \in 1..Len(accepted) :
            ~(/\ accepted[i].index < accepted[k].index
              /\ accepted[k].index < accepted[j].index))
      => accepted[j].cumulativeWords - accepted[i].cumulativeWords >= 250

\* a result of two decisions whose paragraphs are exactly 250 words apart
TwoDecisionsSpaced ==
  /\ AfterGenerate
  /\ Len(accepted) = 2
  /\ accepted[2].cumulativeWords - accepted[1].cumulativeWords = 250

\* C4: the number of decisions returned never exceeds maxLinks (10 when
\* maxLinks is left out); with maxLinks = 0 the result is empty.
AtMostMaxLinks ==
  AfterGenerate =>
    /\ Len(selected) <= LimitGiven
    /\ maxLinksArg = Some(0) => selected = <<>>

\* a call that stopped at maxLinks = 1 with a candidate left that the three
\* tests would have let pass
StoppedAtMaxLinks ==
  /\ AfterGenerate
  /\ maxLinksArg = Some(1)
  /\ Len(selected) = 1
  /\ \E k \in 1..Len(candidates) :
       /\ candidates[k].url # accepted[1].url
       /\ PassesAfterFirst(candidates[k])

\* a call with maxLinks = 0 and a pool of two or more candidates
NothingAtZero ==
  /\ AfterGenerate
  /\ maxLinksArg = Some(0)
  /\ Len(candidates) >= 2
  /\ selected = <<>>

\* C5: with an engine constructed without pages, or after updateSitePages([])
\* or updateSitePages(undefined), generateLinkOpportunities returns the empty
\* list and does not raise, whatever the article and maxLinks.
EmptyCatalogGivesNothing ==
  (AfterGenerate /\ pagesArg \in {Undefined, Some(<<>>)}) =>
    /\ ~threw
    /\ selected = <<>>

\* a call for an article with an eligible paragraph, made after
\* updateSitePages(undefined)
GeneratedWithoutCatalog ==
  /\ AfterGenerate
  /\ pagesArg = Undefined
  /\ \E b \in 1..Len(article) :
       BlockWords(article[b]) >= 12 /\ ~BlockParagraphs(article[b])[1].hasLink

\* C6: no candidate and no decision refers to a paragraph of fewer than 12
\* words, and the index and the cumulative word count of a candidate's
\* paragraph count every paragraph before it, the short ones included.
ShortParagraphsOnlyCounted ==
  AfterGenerate =>
    /\ \A k \in 1..Len(candidates) :
         /\ candidates[k].wordCount >= 12
         /\ candidates[k].index + 1 \in 1..Len(Subject)
         /\ candidates[k].wordCount = BlockWords(Subject[candidates[k].index + 1])
         /\ candidates[k].cumulativeWords
              = WordsUpTo(Subject, candidates[k].index + 1)
    /\ \A k \in 1..Len(accepted) : accepted[k].wordCount >= 12

\* a decision in a paragraph that follows a paragraph of fewer than 12 words
DecisionAfterShortParagraph ==
  /\ AfterGenerate
  /\ \E k \in 1..Len(accepted) :
       /\ accepted[k].index >= 1
       /\ BlockWords(Subject[accepted[k].index]) < 12
       /\ BlockWords(Subject[accepted[k].index]) > 0

\* the first and the last word of an anchor, as lines 148-149 read them
EdgeWords(anchor) ==
  LET ws == SplitWs(anchor)
  IN  {SelectSeq(Lower(ws[1]), IsLowerLetter),
       SelectSeq(Lower(ws[Len(ws)]), IsLowerLetter)}

\* C7: no anchor of a returned decision begins or ends on a stop-word,
\* whether a window or the title fallback produced it.
NoStopWordAtAnchorEdge ==
  AfterGenerate =>
    \A k \in 1..Len(selected) : EdgeWords(selected[k].anchor) \cap STOP = {}

\* a decision whose anchor the title fallback produced
FallbackDecision ==
  /\ AfterGenerate
  /\ \E k \in 1..Len(accepted) : accepted[k].via = "fallback"

\* the runs of 3 to 7 whole words of a text
WordRuns(text) ==
  LET ws == SplitWs(text)
  IN  {Join(SubSeq(ws, r[1], r[1] + r[2] - 1)) :
         r \in {q \in (1..Len(ws)) \X (3..7) : q[1] + q[2] - 1 <= Len(ws)}}

\* the text of the paragraph of index i of the article of the last call
ParagraphText(i) == BlockParagraphs(Subject[i + 1])[1].text

\* C8: the anchor of every candidate is a run of 3 to 7 whole words of the
\* paragraph it was found in, in the casing of the paragraph, whether a
\* window or the title fallback produced it.
AnchorIsRunOfWholeWords ==
  AfterGenerate =>
    \A k \in 1..Len(candidates) :
      candidates[k].anchor \in WordRuns(ParagraphText(candidates[k].index))

\* a candidate whose anchor the title fallback produced
FallbackCandidate ==
  /\ AfterGenerate
  /\ \E k \in 1..Len(candidates) : candidates[k].via = "fallback"

\* the blocks of the article that injectContextualLinks rewrote
Linked == {b \in 1..Len(article) : rewritten[1][b] # article[b]}

\* C9: after injectContextualLinks inserted a link into a paragraph, a
\* generateLinkOpportunities on the article it returned gives no decision in
\* that paragraph.
NoDecisionInLinkedParagraph ==
  (AfterGenerate /\ subject = "rewritten") =>
    \A k \in 1..Len(accepted) : accepted[k].index + 1 \notin Linked

\* a call on a rewritten article in which a page of the catalog has its best
\* anchor in the paragraph that was linked, and a decision in another one
DecisionBesideLinkedParagraph ==
  /\ AfterGenerate
  /\ subject = "rewritten"
  /\ Linked # {}
  /\ accepted # <<>>
  /\ \E b \in Linked, k \in 1..Len(pages[1]) :
       BestAnchor(BlockParagraphs(article[b])[1].text, pages[1][k]) # Null

\* the paragraphs of the inputs that contain link markup
WithLinkMarkup == {b \in ParaChoices : HasLinkMarkup(b)}

\* C10: generateLinkOpportunities has no candidate for a paragraph that
\* contains link markup, and injectContextualLinks returns every paragraph
\* that contained link markup unchanged.
LinkedParagraphsLeftAlone ==
  /\ AfterGenerate =>
       \A k \in 1..Len(candidates) :
         /\ ~candidates[k].hasLink
         /\ subject = "article" =>
              article[candidates[k].index + 1] \notin WithLinkMarkup
  /\ AfterInject =>
       /\ Len(rewritten[1]) = Len(article)
       /\ \A b \in 1..Len(article) :
            article[b] \in WithLinkMarkup => rewritten[1][b] = article[b]

\* an injectContextualLinks whose first paragraph with the anchor of a given
\* link is one that contains link markup
AnchorFoundInLinkedParagraph ==
  /\ AfterInject
  /\ \E k \in 1..Len(linksArg), b \in 1..Len(article) :
       /\ article[b] \in WithLinkMarkup
       /\ Matches(article[b], LinkAnchor(linksArg[k]))
       /\ \A a \in 1..(b - 1) : ~Matches(article[a], LinkAnchor(linksArg[k]))

(***************************************************************************)
(* Properties of injectContextualLinks, for the lists of ListedLinks       *)
(* (specification Injecting).                                              *)
(***************************************************************************)
\* the number of opening link tags (<a and white space) in a string
CountLinkMarkup(s) ==
  Cardinality({i \in 1..(Len(s) - 2) : IsAt(s, i, <<"<","a">>) /\ IsSpace(s[i + 2])})

LinkMarkupTable == {<<b, CountLinkMarkup(b)>> : b \in KnownBlocks}
LinkMarkupIn(block) == Lookup(LinkMarkupTable, block, CountLinkMarkup(block))

\* link k of the list given to injectContextualLinks passes the test of line 292
UsableLink(k) == Usable(LinkAnchor(linksArg[k]), LinkUrl(linksArg[k]))

\* the first paragraph of a document in which the anchor of link k is found,
\* 0 when it is found in none
FirstWithAnchor(doc, k) ==
  IF \E b \in 1..Len(doc) : Matches(doc[b], LinkAnchor(linksArg[k]))
    THEN CHOOSE b \in 1..Len(doc) :
           /\ Matches(doc[b], LinkAnchor(linksArg[k]))
           /\ \A a \in 1..(b - 1) : ~Matches(doc[a], LinkAnchor(linksArg[k]))
    ELSE 0

\* C11: one injectContextualLinks call inserts at most one link into any
\* paragraph, also when the anchors of several decisions are in the same
\* paragraph and when a decision is listed twice.
AtMostOneLinkPerParagraph ==
  AfterInject =>
    /\ Len(rewritten[1]) = Len(article)
    /\ \A b \in 1..Len(article) :
         LinkMarkupIn(rewritten[1][b]) - LinkMarkupIn(article[b]) \in {0, 1}

\* a call with two decisions of different anchors that are both found first
\* in the same paragraph, which had no link
TwoAnchorsInOneParagraph ==
  /\ AfterInject
  /\ Len(linksArg) = 2
  /\ UsableLink(1) /\ UsableLink(2)
  /\ LinkAnchor(linksArg[1]) # LinkAnchor(linksArg[2])
  /\ FirstWithAnchor(article, 1) # 0
  /\ FirstWithAnchor(article, 1) = FirstWithAnchor(article, 2)
  /\ article[FirstWithAnchor(article, 1)] \notin WithLinkMarkup
  /\ LinkMarkupIn(rewritten[1][FirstWithAnchor(article, 1)]) = 1

\* a call with the same decision twice, its anchor being in a paragraph that
\* had no link
SameDecisionTwice ==
  /\ AfterInject
  /\ Len(linksArg) = 2
  /\ UsableLink(1)
  /\ linksArg[1] = linksArg[2]
  /\ FirstWithAnchor(article, 1) # 0
  /\ LinkMarkupIn(rewritten[1][FirstWithAnchor(article, 1)]) = 1

\* the document after the iterations for the first k links of the list
AfterStep(k) == injectContextualLinks(article, SubSeq(linksArg, 1, k))

\* the paragraphs of a document that contain no link markup and in which the
\* anchor of link k is found between word boundaries
Qualifying(doc, k) ==
  {b \in 1..Len(doc) :
     LinkMarkupIn(doc[b]) = 0 /\ Matches(doc[b], LinkAnchor(linksArg[k]))}

FirstOf(S) == CHOOSE b \in S : \A a \in S : b <= a

\* C12: a decision whose anchor is found, between word boundaries, in at
\* least one paragraph without link markup of the document as it stands is
\* injected, into the first such paragraph, also when an earlier paragraph
\* that contains a link holds the same phrase.
InjectedAtFirstQualifying ==
  AfterInject =>
    \A k \in 1..Len(linksArg) :
      (UsableLink(k) /\ Qualifying(AfterStep(k - 1), k) # {}) =>
        \A b \in 1..Len(article) :
          LinkMarkupIn(AfterStep(k)[b])
            = IF b = FirstOf(Qualifying(AfterStep(k - 1), k)) THEN 1
              ELSE LinkMarkupIn(AfterStep(k - 1)[b])

\* a call with a decision whose anchor is found first in a paragraph that
\* contains a link and again in a later paragraph that contains none
AnchorAlsoInEarlierLinkedParagraph ==
  /\ AfterInject
  /\ Len(linksArg) = 1
  /\ UsableLink(1)
  /\ Qualifying(article, 1) # {}
  /\ FirstWithAnchor(article, 1) < FirstOf(Qualifying(article, 1))
  /\ rewritten[1] = article

\* the test of lines 292, 303 and 307 for link k and the document doc: the
\* iteration is left by a continue
Skipped(doc, k) ==
  \/ ~UsableLink(k)
  \/ FirstWithAnchor(doc, k) = 0
  \/ LinkMarkupIn(doc[FirstWithAnchor(doc, k)]) > 0

\* C13: a decision that cannot be placed (anchor in no paragraph, anchor or
\* url empty, its paragraph already linked) is skipped without raising and
\* leaves the document as it was, and every later decision of the list is
\* still injected if it can be placed.
SkippedDecisionsChangeNothing ==
  AfterInject =>
    /\ ~threw
    /\ rewritten[1] = AfterStep(Len(linksArg))
    /\ \A k \in 1..Len(linksArg) :
         IF Skipped(AfterStep(k - 1), k)
           THEN AfterStep(k) = AfterStep(k - 1)
           ELSE LinkMarkupIn(AfterStep(k)[FirstWithAnchor(AfterStep(k - 1), k)]) = 1

\* a call whose first decision cannot be placed and whose second decision
\* is injected
InjectedAfterSkipped ==
  /\ AfterInject
  /\ Len(linksArg) = 2
  /\ Skipped(article, 1)
  /\ ~Skipped(article, 2)
  /\ rewritten[1] # article

\* the first position at which the string lit stands in s, 0 when it stands
\* nowhere in s
FindExact(s, lit) ==
  LET At(q) == s[q] = lit[1] /\ SubSeq(s, q, q + Len(lit) - 1) = lit
      spots == {q \in 1..(Len(s) - Len(lit) + 1) : At(q)}
  IN  IF spots = {} THEN 0 ELSE FirstOf(spots)

\* the opening tag that line 313 writes for a url
OpeningTag(url) == Str_href \o url \o Str_style \o LinkStyle \o Str_endOpen

\* a block without the first opening tag for url and the first </a> after
\* it: what is left (rest) and what the two enclosed (enclosed); found is
\* FALSE when the block has no such tags
WithoutWrapper(block, url) ==
  LET open == FindExact(block, OpeningTag(url))
      from == open + Len(OpeningTag(url))
      inner == SubSeq(block, from, Len(block))
      close == FindExact(inner, Str_closeA)
  IN  IF open = 0 \/ close = 0
        THEN [found |-> FALSE, rest |-> block, enclosed |-> <<>>]
        ELSE [found |-> TRUE,
              rest |-> SubSeq(block, 1, open - 1) \o SubSeq(inner, 1, close - 1)
                         \o SubSeq(inner, close + Len(Str_closeA), Len(inner)),
              enclosed |-> SubSeq(inner, 1, close - 1)]

KnownUrls == {t[2] : t \in KnownTargets}
WrapperTable ==
  {<<<<b, u>>, WithoutWrapper(b, u)>> : b \in KnownBlocks, u \in KnownUrls}
Unwrapped(block, url) ==
  Lookup(WrapperTable, <<block, url>>, WithoutWrapper(block, url))

\* block after is block before with the text that matched the anchor of a
\* decision of the list wrapped into a link to the url of that decision
WrapsOneMatch(before, after) ==
  \E k \in 1..Len(linksArg) :
    /\ UsableLink(k)
    /\ Unwrapped(after, LinkUrl(linksArg[k])).found
    /\ Unwrapped(after, LinkUrl(linksArg[k])).rest = before
    /\ Lower(Unwrapped(after, LinkUrl(linksArg[k])).enclosed)
         = Lower(LinkAnchor(linksArg[k]))

\* C14: injectContextualLinks changes nothing but the wrappers it inserts:
\* the output without the inserted opening and closing tags is the input,
\* each wrapper encloses the text that matched the anchor of a decision, and
\* with an empty list the output is the input.
OnlyWrappersInserted ==
  AfterInject =>
    /\ Len(rewritten[1]) = Len(article)
    /\ linksArg = <<>> => rewritten[1] = article
    /\ \A b \in 1..Len(article) :
         \/ rewritten[1][b] = article[b]
         \/ WrapsOneMatch(article[b], rewritten[1][b])

\* a call that wrapped text whose casing is not that of the anchor of the
\* decision
WrappedInOtherCasing ==
  /\ AfterInject
  /\ \E b \in 1..Len(article), k \in 1..Len(linksArg) :
       /\ rewritten[1][b] # article[b]
       /\ UsableLink(k)
       /\ Unwrapped(rewritten[1][b], LinkUrl(linksArg[k])).found
       /\ Unwrapped(rewritten[1][b], LinkUrl(linksArg[k])).enclosed
            # LinkAnchor(linksArg[k])
       /\ Lower(Unwrapped(rewritten[1][b], LinkUrl(linksArg[k])).enclosed)
            = Lower(LinkAnchor(linksArg[k]))

(***************************************************************************)
(* Properties of the catalog (specification Replacing).                    *)
(***************************************************************************)
\* the urls of the pages of the catalog the engine was last given
GivenUrls == IF pagesArg = Undefined THEN {} ELSE UrlsOf(pagesArg[1])

\* every decision of the last generateLinkOpportunities targets a page of
\* the catalog last given, and none a page of an earlier catalog only
TargetsInCatalog ==
  AfterGenerate =>
    \A k \in 1..Len(selected) :
      /\ selected[k].targetUrl \in GivenUrls
      /\ selected[k].targetUrl \notin former

\* a call other than updateSitePages leaves this.pages as it is
CatalogKept == op' # "updateSitePages" => pages' = pages

\* C15: updateSitePages replaces the catalog wholesale: after
\* updateSitePages(P) every decision targets a page of P and none a page
\* that was only in an earlier catalog, and generateLinkOpportunities and
\* injectContextualLinks never change the catalog.
CatalogReplacedWholesale == []TargetsInCatalog /\ [][CatalogKept]_vars

\* a call that returned decisions for an article in which a page of an
\* earlier catalog, no longer in this.pages, has an anchor in an eligible
\* paragraph
DroppedPageHadAnchor ==
  /\ AfterGenerate
  /\ subject = "article"
  /\ selected # <<>>
  /\ \E page \in PageChoices, b \in 1..Len(article) :
       /\ page.url \in former
       /\ \E k \in 1..Len(BlockParagraphs(article[b])) :
            /\ Eligible(BlockParagraphs(article[b])[k])
            /\ BestAnchor(BlockParagraphs(article[b])[k].text, page) # Null

(***************************************************************************)
(* Properties of repeated calls (specification Repeating).                 *)
(***************************************************************************)
\* the last call was generateLinkOpportunities for the article with the
\* catalog and the maxLinks of the call kept in earlier
CalledAgain ==
  /\ AfterGenerate
  /\ earlier # Undefined
  /\ SameInputs(maxLinksArg, subject)

ForExample ==
  {k \in 1..Len(candidates) :
     /\ candidates[k].url = UrlExample
     /\ Subject[candidates[k].index + 1] = ParaExample}

\* an anchor that is a run of 3 to 7 words of the paragraph of the example
\* with the words sourdough and baking among them
SourdoughBakingWindow(anchor) ==
  /\ anchor \in WordRuns(Trim(StripTags(ParaExample)))
  /\ <<"s","o","u","r","d","o","u","g","h">> \in Range(SplitWs(Lower(anchor)))
  /\ <<"b","a","k","i","n","g">> \in Range(SplitWs(Lower(anchor)))

\* C18: for the paragraph "The complete guide to sourdough baking requires
\* patience and the right flour" and the page titled "Sourdough Baking
\* Guide" at /guides/sourdough there is a candidate, its anchor is a window
\* of 3 to 7 words with "sourdough" and "baking" in it, and its score is at
\* least 10.
ExampleYieldsAnchor ==
  (AfterGenerate /\ ~threw) =>
    \A b \in 1..Len(Subject) :
      (Subject[b] = ParaExample /\ \E i \in 1..Len(pages[1]) : pages[1][i] = PgExample)
        => \E k \in ForExample :
             /\ candidates[k].index = b - 1
             /\ SourdoughBakingWindow(candidates[k].anchor)
             /\ ~ScoreBelow(candidates[k].score, 10)

\* the call of the example: the one page in the catalog, the one paragraph
\* in the article, and a decision returned for it
ExampleAlone ==
  /\ AfterGenerate
  /\ pages = Some(<<PgExample>>)
  /\ article = <<ParaExample>>
  /\ Len(selected) = 1
  /\ selected[1].targetUrl = UrlExample

\* the pool of the last call has candidates for at least 4 target urls in
\* at least 4 paragraphs, and every one of 4 of the urls has candidates in
\* 4 paragraphs
FourUrlsInFourParagraphs ==
  /\ Cardinality({candidates[k].index : k \in 1..Len(candidates)}) >= 4
  /\ Cardinality({u \in {candidates[k].url : k \in 1..Len(candidates)} :
                    Cardinality({candidates[k].index :
                                   k \in {j \in 1..Len(candidates) :
                                            candidates[j].url = u}}) >= 4}) >= 4

\* C19: the engine keeps a hard minimum of 4 links: a call with maxLinks of
\* at least 4 whose pool has candidates for at least 4 target urls in at
\* least 4 eligible paragraphs returns at least 4 decisions.
HardMinimumOfFour ==
  (AfterGenerate /\ LimitGiven >= 4 /\ FourUrlsInFourParagraphs)
    => Len(selected) >= 4

\* a call with maxLinks left out whose pool has candidates for 4 urls, each
\* in 4 paragraphs
FourCouldBeLinked ==
  /\ AfterGenerate
  /\ maxLinksArg = Undefined
  /\ FourUrlsInFourParagraphs

\* the place of the page of url u in this.pages
PagePosition(u) ==
  CHOOSE i \in 1..Len(pages[1]) :
    pages[1][i].url = u /\ \A j \in 1..(i - 1) : pages[1][j].url # u

\* candidate c comes before candidate d: higher score, or equal score and
\* lower paragraph, or also the same paragraph and earlier in the catalog
ConsideredBefore(c, d) ==
  \/ ScoreLess(d.score, c.score)
  \/ /\ ScoreEq(c.score, d.score)
     /\ \/ c.index < d.index
        \/ c.index = d.index /\ PagePosition(c.url) < PagePosition(d.url)

\* the place of an accepted candidate in the pool (in Examples no two
\* candidates of a pool are equal: a catalog has each page once)
PlaceOf(c) == CHOOSE q \in 1..Len(candidates) : candidates[q] = c

\* the candidates accepted before the one at place q was considered
TakenBefore(q) == {m \in 1..Len(accepted) : PlaceOf(accepted[m]) < q}

\* the candidate at place q was acceptable when it was considered
AcceptableAt(q) ==
  /\ Cardinality(TakenBefore(q)) < LimitGiven
  /\ \A m \in TakenBefore(q) :
       /\ accepted[m].url # candidates[q].url
       /\ accepted[m].index # candidates[q].index
       /\ (\A n \in TakenBefore(q) : n <= m)
            => candidates[q].cumulativeWords - accepted[m].cumulativeWords >= 250

\* C20: the selector considers the candidates by descending score, among
\* those of equal score the one in the lower paragraph first and within a
\* paragraph the one whose page comes first in the catalog, and it accepts
\* exactly the candidates that are acceptable when their turn comes: none is
\* accepted while an earlier acceptable one is passed over.
ConsideredInOrder ==
  (AfterGenerate /\ ~threw) =>
    /\ \A i, j \in 1..Len(candidates) :
         i < j => ConsideredBefore(candidates[i], candidates[j])
    /\ \A m, n \in 1..Len(accepted) :
         m < n => PlaceOf(accepted[m]) < PlaceOf(accepted[n])
    /\ \A q \in 1..Len(candidates) :
         (\E m \in 1..Len(accepted) : accepted[m] = candidates[q]) <=> AcceptableAt(q)

\* a call whose pool has candidates of equal score in two paragraphs and
\* candidates of equal score for two pages in one paragraph, and that
\* accepted two candidates and passed one over between them
TiesInPool ==
  /\ AfterGenerate
  /\ Len(accepted) = 2
  /\ PlaceOf(accepted[2]) > PlaceOf(accepted[1]) + 1
  /\ \E i, j \in 1..Len(candidates) :
       /\ ScoreEq(candidates[i].score, candidates[j].score)
       /\ candidates[i].index < candidates[j].index
  /\ \E i, j \in 1..Len(candidates) :
       /\ ScoreEq(candidates[i].score, candidates[j].score)
       /\ candidates[i].index = candidates[j].index
       /\ candidates[i].url # candidates[j].url

(***************************************************************************)
(* Properties of extractParagraphs (specification Scanning).               *)
(***************************************************************************)
\* the paragraphs of the article of the last call
Spans == extractParagraphs(Subject)

RECURSIVE WordsOfSpans(_, _)
WordsOfSpans(ps, k) == IF k = 0 THEN 0 ELSE WordsOfSpans(ps, k - 1) + ps[k].wordCount

\* C21: extractParagraphs returns the paragraphs in document order, with
\* the indices 0, 1, 2, ... without gaps, at ranges [startOffset, endOffset)
\* that do not overlap and increase, each with the cumulative word count
\* that is the sum of the word counts up to it; for an article without a
\* paragraph it returns none and generateLinkOpportunities no decision.
SpansInDocumentOrder ==
  AfterGenerate =>
    /\ \A k \in 1..Len(Spans) :
         /\ Spans[k].index = k - 1
         /\ 0 <= Spans[k].startOffset
         /\ Spans[k].startOffset < Spans[k].endOffset
         /\ Spans[k].endOffset <= Len(Flat(Subject))
         /\ Spans[k].html = SubSeq(Flat(Subject), Spans[k].startOffset + 1,
                                   Spans[k].endOffset)
         /\ k > 1 => Spans[k - 1].endOffset <= Spans[k].startOffset
         /\ k > 1 => Spans[k - 1].cumulativeWords <= Spans[k].cumulativeWords
         /\ Spans[k].cumulativeWords = WordsOfSpans(Spans, k)
    /\ (\A b \in 1..Len(Subject) : Subject[b] = BlockHeading)
         => Spans = <<>> /\ candidates = <<>> /\ selected = <<>>

\* an article with a heading between two paragraphs
HeadingBetweenParagraphs ==
  /\ AfterGenerate
  /\ Len(article) = 3
  /\ article[1] # BlockHeading
  /\ article[2] = BlockHeading
  /\ article[3] # BlockHeading
  /\ Len(Spans) = 2
  /\ Spans[2].startOffset = Len(article[1]) + Len(BlockHeading)

\* an article of headings only
HeadingsOnly ==
  /\ AfterGenerate
  /\ article # <<>>
  /\ \A b \in 1..Len(article) : article[b] = BlockHeading

(***************************************************************************)
(* Properties of findBestAnchor (specification Scanning).                  *)
(***************************************************************************)
\* the scores of the windows of a paragraph text for a page
ScoresOf(text, page) ==
  WindowScores(SplitWs(text), TitleStems(page),
               TitleStems(page) \cup KeywordStems(page))
ScanTexts == {Trim(StripTags(p)) : p \in {ParaGuide, ParaShort, ParaLinked}}
ScanPages == {PgSourdough, PgFlour, PgBaking, PgStop}
ScoreTable == {<<<<t, pg>>, ScoresOf(t, pg)>> : t \in ScanTexts, pg \in ScanPages}
Scores(text, page) == Lookup(ScoreTable, <<text, page>>, ScoresOf(text, page))

\* the windows of a paragraph text for a page that score above 15
WindowsAboveFloor(text, page) ==
  {w \in DOMAIN Scores(text, page) :
     /\ Scores(text, page)[w] # NoScore
     /\ ScoreLess(IntScore(15), Scores(text, page)[w])}
AboveFloorTable ==
  {<<<<t, pg>>, WindowsAboveFloor(t, pg)>> : t \in ScanTexts, pg \in ScanPages}
AboveFloor(text, page) ==
  Lookup(AboveFloorTable, <<text, page>>, WindowsAboveFloor(text, page))

\* window w = <<len, i>> has the highest score of the windows of the text
\* and is the first of those in scan order, len ascending and then i
FirstOfHighest(text, page, w) ==
  \A v \in DOMAIN Scores(text, page) :
    \/ Scores(text, page)[v] = NoScore
    \/ ScoreLess(Scores(text, page)[v], Scores(text, page)[w])
    \/ /\ ScoreEq(Scores(text, page)[v], Scores(text, page)[w])
       /\ (w[1] < v[1] \/ (w[1] = v[1] /\ w[2] <= v[2]))

\* the windows above 15 that are the first of the highest score
HighestTable ==
  {<<<<t, pg>>, {w \in AboveFloor(t, pg) : FirstOfHighest(t, pg, w)}>> :
     t \in ScanTexts, pg \in ScanPages}
Highest(text, page) ==
  Lookup(HighestTable, <<text, page>>,
         {w \in AboveFloor(text, page) : FirstOfHighest(text, page, w)})

\* the candidates of the last call for paragraph k of the article and the
\* page at place i of the catalog
CandidatesFor(k, i) ==
  {c \in Range(candidates) : c.index = k - 1 /\ c.url = pages[1][i].url}

\* candidate c is window w of the text
IsWindow(c, text, page, w) ==
  /\ c.via = "window"
  /\ c.anchor = Join(SubSeq(SplitWs(text), w[2], w[2] + w[1] - 1))
  /\ c.score = Scores(text, page)[w]

\* C22: for a paragraph and a page, when a window scores above 15 the
\* candidate is the window of the highest score, the first in scan order
\* among those of that score, and not the fallback; the fallback supplies
\* the candidate only when no window scores above 15; no candidate has a
\* score below 10.
HighestWindowOrFallback ==
  (AfterGenerate /\ ~threw) =>
    \A k \in 1..Len(Spans), i \in 1..Len(pages[1]) :
      Eligible(Spans[k]) =>
        /\ Cardinality(CandidatesFor(k, i)) <= 1
        /\ AboveFloor(Spans[k].text, pages[1][i]) # {}
             => \E c \in CandidatesFor(k, i) :
                  \E w \in Highest(Spans[k].text, pages[1][i]) :
                    IsWindow(c, Spans[k].text, pages[1][i], w)
        /\ \A c \in CandidatesFor(k, i) :
             /\ c.via = "fallback" => AboveFloor(Spans[k].text, pages[1][i]) = {}
             /\ ~ScoreBelow(c.score, 10)

\* a candidate that is a window above 15 in a paragraph in which a run of
\* title words of its page occurs verbatim
WindowBeatsFallback ==
  /\ AfterGenerate
  /\ \E k \in 1..Len(Spans), i \in 1..Len(pages[1]) :
       /\ \E c \in CandidatesFor(k, i) : c.via = "window"
       /\ AboveFloor(Spans[k].text, pages[1][i]) # {}
       /\ Fallback(Spans[k].text, pages[1][i], Null) # Null

\* a candidate that is the first of two windows of the highest score
FirstOfTwoHighest ==
  /\ AfterGenerate
  /\ \E k \in 1..Len(Spans), i \in 1..Len(pages[1]) :
       \E c \in CandidatesFor(k, i) :
         \E w, v \in AboveFloor(Spans[k].text, pages[1][i]) :
           /\ w # v
           /\ IsWindow(c, Spans[k].text, pages[1][i], w)
           /\ ScoreEq(Scores(Spans[k].text, pages[1][i])[v], c.score)

\* a candidate of the fallback
FallbackSupplied ==
  /\ AfterGenerate
  /\ \E c \in Range(candidates) : c.via = "fallback"

\* the pages of the catalog whose title and keywords give no stem
WithoutTarget ==
  {i \in 1..Len(pages[1]) :
     TitleStems(pages[1][i]) \cup KeywordStems(pages[1][i]) = {}}

\* C23: a page whose target stem set is empty (a title of stop-words and
\* words of at most 2 letters, no keywords) gets no candidate from any
\* paragraph, also when words of its title occur verbatim in the paragraph,
\* and the other pages of the catalog are still searched.
EmptyTargetGivesNothing ==
  (AfterGenerate /\ ~threw) =>
    \A i \in WithoutTarget :
      /\ \A k \in 1..Len(Spans) : CandidatesFor(k, i) = {}
      /\ \A j \in (1..Len(pages[1])) \ WithoutTarget, k \in 1..Len(Spans) :
           (Eligible(Spans[k]) /\ AboveFloor(Spans[k].text, pages[1][j]) # {})
             => CandidatesFor(k, j) # {}

\* a call with a page without target stems in front of the catalog, for an
\* article with an eligible paragraph in which title words of that page
\* occur verbatim and a later page has a candidate
TitleOfStopWordsInParagraph ==
  /\ AfterGenerate
  /\ 1 \in WithoutTarget
  /\ \E k \in 1..Len(Spans) :
       /\ Eligible(Spans[k])
       /\ Fallback(Spans[k].text, pages[1][1], Null) # Null
       /\ \E j \in 2..Len(pages[1]) : CandidatesFor(k, j) # {}

(***************************************************************************)
(* The order of the decisions (specification Examples).                    *)
(***************************************************************************)
\* C24: the decisions of a result are in strictly increasing paragraph
\* order: once a candidate is accepted no candidate of an earlier paragraph
\* is, however far before it, so no decision lies before the paragraph of
\* the first accepted candidate.
DecisionsInParagraphOrder ==
  AfterGenerate =>
    /\ Len(selected) = Len(accepted)
    /\ \A m \in 1..Len(accepted) :
         /\ selected[m].targetUrl = accepted[m].url
         /\ selected[m].anchor = accepted[m].anchor
         /\ m > 1 => accepted[m - 1].index < accepted[m].index

\* a call that stopped short of its limit and passed over a candidate for
\* a url not yet used, in a paragraph that ends 250 words or more before
\* the paragraph of the first accepted one
EarlierParagraphPassedOver ==
  /\ AfterGenerate
  /\ accepted # <<>>
  /\ Len(accepted) < LimitGiven
  /\ \E c \in Range(candidates) :
       /\ \A m \in 1..Len(accepted) : accepted[m].url # c.url
       /\ c.index < accepted[1].index
       /\ accepted[1].cumulativeWords - c.cumulativeWords >= 250

(***************************************************************************)
(* Properties of injectContextualLinks given what generateLinkOpportunities*)
(* returned (specification Spec).                                          *)
(***************************************************************************)
\* the last call was injectContextualLinks with a list, not empty, that
\* generateLinkOpportunities returns for the article with maxLinks arg
InjectedGenerated(arg) ==
  /\ AfterInject
  /\ linksArg # <<>>
  /\ linksArg = generateLinkOpportunities(pages[1], article, arg)

\* the blocks of the paragraphs of the candidates accepted for maxLinks arg
AcceptedBlocks(arg) ==
  {c.paragraph.index + 1 : c \in Range(Select(Candidates(pages[1], article), arg))}

\* C25: in injectContextualLinks(html, generateLinkOpportunities(html))
\* every inserted link lands in the paragraph for which its decision was
\* accepted, so the links of the rewritten article are in paragraphs of at
\* least 12 words, at most one in a paragraph.
LinksLandWhereAccepted ==
  \A arg \in MaxLinksArgs :
    InjectedGenerated(arg) =>
      /\ Linked \subseteq AcceptedBlocks(arg)
      /\ \A b \in Linked : BlockWords(article[b]) >= 12

\* a call that was given a generated list and inserted a link
GeneratedLinkInserted ==
  /\ \E arg \in MaxLinksArgs : InjectedGenerated(arg)
  /\ Linked # {}

InitPublishing == New({Undefined}, {<<>>})
NextPublishing ==
  Publish \/ AttemptFails \/ AttemptParses \/ TimerFires \/ ClearResult
Publishing ==
  /\ InitPublishing
  /\ [][NextPublishing]_vars
  /\ WF_vars(AttemptFails \/ AttemptParses)
  /\ WF_vars(TimerFires)

\* C27: publish never rejects and always settles.  In every state the
\* promise is not rejected, isPublishing is true while the call is pending
\* and false once it has ended with the promise resolved, and fetch was
\* called at most maxAttempts times; every step that ends a call leaves the
\* resolved value in publishResult; once an attempt returned JSON fetch is
\* not called again in that call; and every pending call is resolved in the
\* end.
CallSettled == run.at = "done" /\ promise.state = "resolved"
PublishNeverRejects ==
  /\ promise.state # "rejected"
  /\ promise.state = "pending" <=> run.at \in {"fetch", "timer"}
  /\ promise.state = "pending" => isPublishing
  /\ run.at = "done" => CallSettled /\ ~isPublishing
  /\ run.fetches <= maxAttempts
ResultKept ==
  /\ run # run' /\ run'.at = "done" => publishResult' = promise'.value
  /\ run.data # Undefined =>
       run'.fetches = run.fetches \/ run'.data = Undefined
PublishAlwaysSettles ==
  /\ []PublishNeverRejects
  /\ [][ResultKept]_vars
  /\ (promise.state = "pending") ~> CallSettled

\* a call that ended after the last of maxAttempts failed attempts, with the
\* failure it resolved to in publishResult
FailedOnEveryAttempt ==
  /\ CallSettled
  /\ run.fetches = maxAttempts
  /\ run.data = Undefined
  /\ ~promise.value[1].success
  /\ publishResult = promise.value
  /\ ~isPublishing

(***************************************************************************)
(* The cache, with the clock moving on between the calls.                  *)
(***************************************************************************)
InitCaching ==
  /\ Engine({Undefined}, {<<>>})
  /\ Mounted
  /\ now = 0
  /\ NewTTLCache
  /\ LimiterUnused
  /\ SlugUnused
NextCaching == CacheGet \/ CacheSet \/ CacheDelete \/ CacheClear \/ Tick
Caching == InitCaching /\ [][NextCaching]_vars

\* C28: TTLCache never returns an expired value.  The last get of a key
\* returned the value of the last set of that key that no delete or clear
\* followed if the clock was not past the expiry time of that set, and
\* undefined otherwise; a key whose last set is not expired is in the store
\* with the value and expiry time of that set, and a key that a get found
\* expired is absent from the store, until a set of it.
LiveAt(key, time) ==
  key \in DOMAIN written /\ time <= written[key].expiresAt
GetReturnsLiveValue ==
  got # Undefined =>
    IF LiveAt(got[1].key, got[1].at)
      THEN got[1].value = Some(written[got[1].key].value)
      ELSE got[1].value = Undefined /\ got[1].key \notin DOMAIN store
NeverReturnsExpired ==
  /\ GetReturnsLiveValue
  /\ \A key \in Keys :
       /\ LiveAt(key, now) => key \in DOMAIN store /\ store[key] = written[key]
       /\ key \in DOMAIN store => key \in DOMAIN written /\ store[key] = written[key]

\* a get that found the entry of the last set of its key expired, removed
\* it and returned undefined
ExpiredEntryRemoved ==
  /\ got # Undefined
  /\ got[1].key \in DOMAIN written
  /\ got[1].at > written[got[1].key].expiresAt
  /\ got[1].value = Undefined
  /\ got[1].key \notin DOMAIN store

(***************************************************************************)
(* The rate limit, with the clock moving on between the requests.          *)
(***************************************************************************)
InitLimiting ==
  /\ Engine({Undefined}, {<<>>})
  /\ Mounted
  /\ now = 0
  /\ CacheUnused
  /\ BasicRateLimit
  /\ SlugUnused
NextLimiting == Request \/ Tick
Limiting == InitLimiting /\ [][NextLimiting]_vars

\* The windows of a key, told from the requests alone: request i opens a
\* window if no request of its key came before it or if it came after the
\* end of the window that request was in; otherwise it is in that window.
RECURSIVE Opener(_)
Previous(i) ==
  IF \E j \in 1..(i - 1) : requests[j].key = requests[i].key
    THEN CHOOSE j \in 1..(i - 1) :
           /\ requests[j].key = requests[i].key
           /\ \A h \in (j + 1)..(i - 1) : requests[h].key # requests[i].key
    ELSE 0
Opener(i) ==
  IF Previous(i) = 0 THEN i
  ELSE IF requests[i].at > requests[Opener(Previous(i))].at + windowMs THEN i
  ELSE Opener(Previous(i))
\* the requests of the window of request i up to request i
WindowUpTo(i) == {j \in 1..i : requests[j].key = requests[i].key /\ Opener(j) = Opener(i)}

InitSlugging ==
  /\ Engine({Undefined}, {<<>>})
  /\ Mounted
  /\ now = 0
  /\ CacheUnused
  /\ LimiterUnused
  /\ SlugCaller
NextSlugging == ToSafeWpSlug
Slugging == InitSlugging /\ [][NextSlugging]_vars

\* a clean slug: at most SlugLimit characters, each of a-z, 0-9 or a
\* hyphen, no two hyphens in a row, no hyphen first or last
CleanSlug(s) ==
  /\ Len(s) <= SlugLimit
  /\ \A i \in 1..Len(s) : s[i] \in LowerSet \cup DigitSet \cup {"-"}
  /\ \A i \in 1..(Len(s) - 1) : ~(s[i] = "-" /\ s[i + 1] = "-")
  /\ s # <<>> => s[1] # "-" /\ s[Len(s)] # "-"

\* C30: toSafeWpSlug yields a clean slug and is idempotent: what it
\* returned is a clean slug, and given what it returned it returns the
\* same, also when the length limit cut the slug.
SlugCleanAndStable ==
  slugOutput # Undefined =>
    /\ CleanSlug(slugOutput[1])
    /\ toSafeWpSlug(slugOutput[1]) = slugOutput[1]

\* a call whose slug was cut by the length limit
SlugCutByLimit ==
  /\ slugOutput # Undefined
  /\ Len(slugOutput[1]) = SlugLimit
  /\ Len(slugInput[1]) > SlugLimit + 1
====
